---------------------------- MODULE Spec2Model ----------------------------
(***************************************************************************)
(* Word Analyzer V2 - the reading fluency alignment engine of src/app.js.  *)
(*                                                                         *)
(* A JavaScript string is modelled as a sequence of one-character strings, *)
(* so that case folding, character stripping, suffix rewriting, prefixes   *)
(* and edit distance are computed as the code computes them.  A JavaScript *)
(* number that is a score is modelled exactly, as an integer multiple of   *)
(* 1/Scale.                                                                *)
(***************************************************************************)
EXTENDS Integers, Sequences, FiniteSets, TLC

VARIABLES
    pc,               \* position of the current run
    rawToken,         \* the raw token handed to normalizeWordForMatching
    normalized,       \* the successive results of normalizeWordForMatching
    word1, word2,     \* the two tokens handed to calculateWordSimilarity
    word3,            \* a third string, for the distances by way of it
    distances,        \* what levenshteinDistance returned for the pairs of strings
    sim12, sim21,     \* calculateWordSimilarity(word1, word2) and (word2, word1)
    ocrWords,         \* state.ocrData.words mapped to their text
    spokenWordInfo,   \* the speech recogniser's word records
    expectedWords,    \* the selected words, in document order
    recordingDuration,\* state.recordingDuration, in tenths of a second
    matchResult,      \* what findSpokenRangeInOCR returned
    analysis,         \* what analyzePronunciation returned
    patterns,         \* what analyzeErrorPatterns returned
    metrics           \* what calculateProsodyMetrics returned

vars == <<pc, rawToken, normalized, word1, word2, word3, distances, sim12, sim21, ocrWords,
          spokenWordInfo, expectedWords, recordingDuration, matchResult, analysis,
          patterns, metrics>>

(***************************************************************************)
(* Bounds of the model.                                                    *)
(***************************************************************************)
MaxTokenLen == 3      \* length of the enumerated raw tokens
MaxSimLen == 2        \* length of the enumerated normalized tokens
MaxExpected == 2      \* number of words of the enumerated passages
MaxSpoken == 3        \* number of words of the enumerated readings

(***************************************************************************)
(* Values that are not strings.                                            *)
(***************************************************************************)
Null == <<"null">>                 \* null / undefined / not yet computed
ObjectValue == <<"[object]">>      \* a function or object (typeof is not 'string')

IsString(v) == v # Null /\ v # ObjectValue

(***************************************************************************)
(* Characters.                                                             *)
(***************************************************************************)
UpperCase == <<"A","B","C","D","E","F","G","H","I","J","K","L","M",
               "N","O","P","Q","R","S","T","U","V","W","X","Y","Z">>
LowerCase == <<"a","b","c","d","e","f","g","h","i","j","k","l","m",
               "n","o","p","q","r","s","t","u","v","w","x","y","z">>
Digits == {"0","1","2","3","4","5","6","7","8","9"}

Range(s) == {s[i] : i \in DOMAIN s}

\* String.prototype.toLowerCase and toUpperCase on the ASCII letters
lowerCaseOf == [c \in Range(UpperCase) |-> LowerCase[CHOOSE i \in 1..26 : UpperCase[i] = c]]
upperCaseOf == [c \in Range(LowerCase) |-> UpperCase[CHOOSE i \in 1..26 : LowerCase[i] = c]]

toLowerCaseChar(c) == IF c \in DOMAIN lowerCaseOf THEN lowerCaseOf[c] ELSE c

toUpperCaseChar(c) == IF c \in DOMAIN upperCaseOf THEN upperCaseOf[c] ELSE c

toLowerCase(s) == [i \in 1..Len(s) |-> toLowerCaseChar(s[i])]

\* the regular expression class \w
WordChars == Range(LowerCase) \cup Range(UpperCase) \cup Digits \cup {"_"}
IsWordChar(c) == c \in WordChars

\* the regular expression class [a-z0-9]
LowerAlnumChars == Range(LowerCase) \cup Digits
IsLowerAlnum(c) == c \in LowerAlnumChars

startsWith(s, p) == Len(p) <= Len(s) /\ SubSeq(s, 1, Len(p)) = p

endsWith(s, p) == Len(p) <= Len(s) /\ SubSeq(s, Len(s) - Len(p) + 1, Len(s)) = p

\* s.replace(/suffix$/, repl)
replaceSuffix(s, suffix, repl) ==
    IF endsWith(s, suffix) THEN SubSeq(s, 1, Len(s) - Len(suffix)) \o repl ELSE s

\* s.replace(new RegExp(from, 'g'), to): every non-overlapping occurrence, left to right
RECURSIVE replaceAll(_, _, _)
replaceAll(s, from, to) ==
    IF s = <<>> THEN <<>>
    ELSE IF startsWith(s, from)
         THEN to \o replaceAll(SubSeq(s, Len(from) + 1, Len(s)), from, to)
         ELSE <<s[1]>> \o replaceAll(Tail(s), from, to)

\* s.includes(sub)
includes(s, sub) ==
    \E i \in 1..(Len(s) - Len(sub) + 1) : SubSeq(s, i, i + Len(sub) - 1) = sub

Min(a, b) == IF a <= b THEN a ELSE b
Max(a, b) == IF a >= b THEN a ELSE b

(***************************************************************************)
(* Words used as inputs.                                                   *)
(***************************************************************************)
w_cat == <<"c","a","t">>
w_cats == <<"c","a","t","s">>
w_sat == <<"s","a","t">>
w_on == <<"o","n">>
w_the == <<"t","h","e">>
w_mat == <<"m","a","t">>
w_ten == <<"t","e","n">>
w_10 == <<"1","0">>
w_12 == <<"1","2">>
w_13 == <<"1","3">>
w_7 == <<"7">>
w_rabbit == <<"r","a","b","b","i","t">>
w_wabbit == <<"w","a","b","b","i","t">>
w_um == <<"u","m">>
w_like == <<"l","i","k","e">>
w_a == <<"a">>
w_uh == <<"u","h">>
w_to == <<"t","o">>
w_two == <<"t","w","o">>
w_too == <<"t","o","o">>
w_run == <<"r","u","n">>
w_running == <<"r","u","n","n","i","n","g">>
w_dog == <<"d","o","g">>
w_runner == <<"r","u","n","n","e","r">>
w_corn == <<"c","o","r","n">>
w_com == <<"c","o","m">>
w_rabbits == <<"r","a","b","b","i","t","s">>
w_generation == <<"g","e","n","e","r","a","t","i","o","n">>
w_veneration == <<"v","e","n","e","r","a","t","i","o","n">>
w_and == <<"a","n","d">>
w_an == <<"a","n">>
w_there == <<"t","h","e","r","e">>
w_their == <<"t","h","e","i","r">>
w_theyre == <<"t","h","e","y","r","e">>
w_your == <<"y","o","u","r">>
w_youre == <<"y","o","u","r","e">>
w_were_plain == <<"w","e","r","e">>
w_where == <<"w","h","e","r","e">>
w_then == <<"t","h","e","n">>
w_than == <<"t","h","a","n">>
w_The == <<"T","h","e">>
w_dont == <<"d","o","n","'","t">>
w_cat_s == <<"c","a","t","'","s">>
w_were == <<"w","e","'","r","e">>
w_ive == <<"i","'","v","e">>
w_well == <<"w","e","'","l","l">>
w_hed == <<"h","e","'","d">>
w_constructor == <<"c","o","n","s","t","r","u","c","t","o","r">>
w_proto == <<"_","_","p","r","o","t","o","_","_">>

\* all sequences over S of length at most n
RECURSIVE SeqsUpTo(_, _)
SeqsUpTo(S, n) ==
    IF n = 0 THEN {<<>>}
    ELSE LET shorter == SeqsUpTo(S, n - 1)
         IN  shorter \cup {Append(s, c) : s \in shorter, c \in S}

(***************************************************************************)
(* WordNormalizer: normalizeWordForMatching, app.js 1346-1369.             *)
(***************************************************************************)
\* the own properties of the numberWords object literal
numberWords == <<
    <<<<"0">>, <<"z","e","r","o">>>>,
    <<<<"1">>, <<"o","n","e">>>>,
    <<<<"2">>, <<"t","w","o">>>>,
    <<<<"3">>, <<"t","h","r","e","e">>>>,
    <<<<"4">>, <<"f","o","u","r">>>>,
    <<<<"5">>, <<"f","i","v","e">>>>,
    <<<<"6">>, <<"s","i","x">>>>,
    <<<<"7">>, <<"s","e","v","e","n">>>>,
    <<<<"8">>, <<"e","i","g","h","t">>>>,
    <<<<"9">>, <<"n","i","n","e">>>>,
    <<<<"1","0">>, <<"t","e","n">>>>,
    <<<<"1","1">>, <<"e","l","e","v","e","n">>>>,
    <<<<"1","2">>, <<"t","w","e","l","v","e">>>> >>

\* The property names an object literal inherits from Object.prototype that a
\* token of [a-z0-9_]* can spell: their values are a function and an object.
objectPrototypeKeys == {w_constructor, w_proto}

\* numberWords[key]: an own property, else an inherited one, else undefined
numberWordsLookup(key) ==
    IF \E i \in DOMAIN numberWords : numberWords[i][1] = key
    THEN numberWords[CHOOSE i \in DOMAIN numberWords : numberWords[i][1] = key][2]
    ELSE IF key \in objectPrototypeKeys THEN ObjectValue
    ELSE Null

normalizeWordForMatching(word) ==
    IF ~IsString(word) \/ word = <<>> THEN <<>>
    ELSE LET stripped == SelectSeq(toLowerCase(word), IsWordChar)
             r1 == replaceSuffix(stripped, <<"n","'","t">>, <<"n","o","t">>)
             r2 == replaceSuffix(r1, <<"'","r","e">>, <<"a","r","e">>)
             r3 == replaceSuffix(r2, <<"'","v","e">>, <<"h","a","v","e">>)
             r4 == replaceSuffix(r3, <<"'","l","l">>, <<"w","i","l","l">>)
             r5 == replaceSuffix(r4, <<"'","d">>, <<"w","o","u","l","d">>)
             r6 == replaceSuffix(r5, <<"'","s">>, <<>>)
             found == numberWordsLookup(r6)
         IN  IF found # Null THEN found ELSE r6

\* normalizeWord, app.js 1463-1465
normalizeWord(word) == SelectSeq(toLowerCase(word), IsLowerAlnum)

\* isFillerWord, app.js 1467-1470 (the two-word fillers cannot be one token)
fillers == {<<"u","m">>, <<"u","h">>, <<"e","r">>, <<"a","h">>, <<"l","i","k","e">>,
            <<"y","o","u"," ","k","n","o","w">>, <<"i"," ","m","e","a","n">>}

isFillerWord(word) == toLowerCase(word) \in fillers

(***************************************************************************)
(* SimilarityScorer: calculateWordSimilarity, app.js 1119-1217, 1486-1503. *)
(***************************************************************************)
\* A score x in [0,1] is the integer x * Scale; every word length up to 10
\* divides 2520, so the quotients of the code are exact.
Scale == 100 * 2520

\* A row of levenshteinDistance that knows no substitution: a differing
\* character costs 1 + min(dp[i-1][j], dp[i][j-1]).
RECURSIVE levenshteinRow_NoSubstitution(_, _, _, _)
levenshteinRow_NoSubstitution(prev, cur, c, str2) ==
    LET j == Len(cur)
    IN  IF j > Len(str2) THEN cur
        ELSE LET cell == IF c = str2[j]
                         THEN prev[j]
                         ELSE 1 + Min(prev[j + 1], cur[j])
             IN  levenshteinRow_NoSubstitution(prev, Append(cur, cell), c, str2)

\* levenshteinDistance: the row dp[i] from the row dp[i-1], column by column.
\* prev[j+1] is dp[i-1][j]; cur[j+1] is dp[i][j].
RECURSIVE levenshteinRow(_, _, _, _)
levenshteinRow(prev, cur, c, str2) ==
    LET j == Len(cur)
    IN  IF j > Len(str2) THEN cur
        ELSE LET cell == IF c = str2[j]
                         THEN prev[j]
                         ELSE 1 + Min(prev[j + 1], Min(cur[j], prev[j]))
             IN  levenshteinRow(prev, Append(cur, cell), c, str2)

RECURSIVE levenshteinRows(_, _, _, _)
levenshteinRows(prev, i, str1, str2) ==
    IF i > Len(str1) THEN prev
    ELSE levenshteinRows(levenshteinRow(prev, <<i>>, str1[i], str2), i + 1, str1, str2)

levenshteinDistance(str1, str2) ==
    levenshteinRows([j \in 1..(Len(str2) + 1) |-> j - 1], 1, str1, str2)[Len(str2) + 1]

\* the phonemeMap of getPhoneticCode; "" for a character it does not map
phonemeMap(c) ==
    IF c \in {"b", "f", "p", "v"} THEN "1"
    ELSE IF c \in {"c", "g", "j", "k", "q", "s", "x", "z"} THEN "2"
    ELSE IF c \in {"d", "t"} THEN "3"
    ELSE IF c = "l" THEN "4"
    ELSE IF c \in {"m", "n"} THEN "5"
    ELSE IF c = "r" THEN "6"
    ELSE ""

\* the loop of getPhoneticCode from position i on
RECURSIVE phoneticLoop(_, _, _, _)
phoneticLoop(word, i, code, lastCode) ==
    IF i > Len(word) \/ Len(code) >= 4 THEN code
    ELSE LET phoneCode == phonemeMap(toLowerCaseChar(word[i]))
         IN  IF phoneCode # "" /\ phoneCode # lastCode
             THEN phoneticLoop(word, i + 1, Append(code, phoneCode), phoneCode)
             ELSE IF phoneCode = ""
                  THEN phoneticLoop(word, i + 1, code, "")
                  ELSE phoneticLoop(word, i + 1, code, lastCode)

getPhoneticCode(word) ==
    IF Len(word) < 2 THEN Null
    ELSE LET code == phoneticLoop(word, 2, <<toUpperCaseChar(word[1])>>, "")
         IN  code \o [k \in 1..(4 - Len(code)) |-> "0"]

ocrConfusions == <<
    <<<<"0">>, <<"o">>>>, <<<<"1">>, <<"l">>>>, <<<<"1">>, <<"i">>>>, <<<<"5">>, <<"s">>>>,
    <<<<"8">>, <<"b">>>>, <<<<"r","n">>, <<"m">>>>, <<<<"c","l">>, <<"d">>>>,
    <<<<"v","v">>, <<"w">>>> >>

wordConfusions == <<
    {<<"t","h","e">>, <<"a">>},
    {<<"t","h","e">>, <<"u","h">>},
    {<<"a","n","d">>, <<"a","n">>},
    {<<"t","o">>, <<"t","o","o">>, <<"t","w","o">>},
    {<<"t","h","e","r","e">>, <<"t","h","e","i","r">>, <<"t","h","e","y","r","e">>},
    {<<"i","t","s">>},
    {<<"y","o","u","r">>, <<"y","o","u","r","e">>},
    {<<"w","e","r","e">>, <<"w","h","e","r","e">>},
    {<<"t","h","e","n">>, <<"t","h","a","n">>} >>

\* A faulty confusion check that applies the OCR replacements to the first
\* word only: the fault that C6 excludes.
areCommonConfusions_OneWay(a, b) ==
    LET normalized1 == toLowerCase(a)
        normalized2 == toLowerCase(b)
    IN  \/ \E k \in DOMAIN ocrConfusions :
              replaceAll(normalized1, ocrConfusions[k][1], ocrConfusions[k][2]) = normalized2
        \/ \E k \in DOMAIN wordConfusions :
              normalized1 \in wordConfusions[k] /\ normalized2 \in wordConfusions[k]

areCommonConfusions(a, b) ==
    LET normalized1 == toLowerCase(a)
        normalized2 == toLowerCase(b)
    IN  \/ \E k \in DOMAIN ocrConfusions :
              LET from == ocrConfusions[k][1]
                  to == ocrConfusions[k][2]
              IN  \/ replaceAll(normalized1, from, to) = normalized2
                  \/ replaceAll(normalized1, to, from) = normalized2
                  \/ normalized1 = replaceAll(normalized2, from, to)
                  \/ normalized1 = replaceAll(normalized2, to, from)
        \/ \E k \in DOMAIN wordConfusions :
              normalized1 \in wordConfusions[k] /\ normalized2 \in wordConfusions[k]

calculateWordSimilarity(a, b) ==
    IF ~IsString(a) \/ ~IsString(b) \/ a = <<>> \/ b = <<>> THEN 0
    ELSE IF a = b THEN Scale
    ELSE LET phonetic1 == getPhoneticCode(a)
             phonetic2 == getPhoneticCode(b)
             minLen == Min(Len(a), Len(b))
             maxLen == Max(Len(a), Len(b))
             prefixLen == Min(4, minLen)
         IN  IF phonetic1 # Null /\ phonetic2 # Null /\ phonetic1 = phonetic2
             THEN (95 * Scale) \div 100
             ELSE IF areCommonConfusions(a, b)
             THEN (90 * Scale) \div 100
             ELSE IF minLen >= 3 /\ (startsWith(a, b) \/ startsWith(b, a))
             THEN (70 * Scale) \div 100 + (25 * Scale * minLen) \div (100 * maxLen)
             ELSE IF minLen >= 3 /\ SubSeq(a, 1, prefixLen) = SubSeq(b, 1, prefixLen)
             THEN (60 * Scale) \div 100 + (30 * Scale * minLen) \div (100 * maxLen)
             ELSE LET distance == levenshteinDistance(a, b)
                      similarity == Scale - (distance * Scale) \div maxLen
                      lengthBonus == Min(Scale \div 10, (maxLen * Scale) \div 100)
                  IN  Min(Scale, similarity + lengthBonus)

(***************************************************************************)
(* SequenceAligner: analyzePronunciation, app.js 1505-1637.                *)
(***************************************************************************)
\* phoneticEquivalences: each base with its equivalents (allForms)
phoneticEquivalences == <<
    {<<"g","r","a","h","a","m">>, <<"g","r","a","m">>, <<"g","r","a","h","m">>},
    {<<"m","i","c","h","a","e","l">>, <<"m","i","k","e">>, <<"m","i","c","h","e","a","l">>},
    {<<"s","t","e","p","h","e","n">>, <<"s","t","e","v","e","n">>, <<"s","t","e","f","a","n">>},
    {<<"c","a","t","h","e","r","i","n","e">>, <<"k","a","t","h","e","r","i","n","e">>,
     <<"k","a","t","h","r","y","n">>},
    {<<"a","n","n","e">>, <<"a","n","n">>},
    {<<"s","a","r","a">>, <<"s","a","r","a","h">>},
    {<<"j","o","n">>, <<"j","o","h","n">>},
    {<<"k","n","i","g","h","t">>, <<"n","i","g","h","t">>},
    {<<"k","n","o","w">>, <<"n","o">>},
    {<<"k","n","e","w">>, <<"n","e","w">>},
    {<<"w","r","i","t","e">>, <<"r","i","g","h","t">>, <<"r","i","t","e">>},
    {<<"w","h","o","l","e">>, <<"h","o","l","e">>},
    {<<"h","o","u","r">>, <<"o","u","r">>},
    {<<"t","h","e","i","r">>, <<"t","h","e","r","e">>, <<"t","h","e","y","r","e">>},
    {<<"y","o","u","r">>, <<"y","o","u","r","e">>},
    {<<"i","t","s">>},
    {<<"t","o">>, <<"t","o","o">>, <<"t","w","o">>},
    {<<"b","y">>, <<"b","y","e">>, <<"b","u","y">>},
    {<<"f","o","r">>, <<"f","o","u","r">>, <<"f","o","r","e">>} >>

arePhoneticEquivalents(a, b) ==
    LET w1 == toLowerCase(a)
        w2 == toLowerCase(b)
    IN  \/ w1 = w2
        \/ \E k \in DOMAIN phoneticEquivalences :
              w1 \in phoneticEquivalences[k] /\ w2 \in phoneticEquivalences[k]

wordsAreSimilar(a, b) ==
    LET w1 == normalizeWord(a)
        w2 == normalizeWord(b)
        maxLen == Max(Len(w1), Len(w2))
    IN  \/ w1 = w2
        \/ maxLen = 0
        \/ 10 * (maxLen - levenshteinDistance(w1, w2)) >= 6 * maxLen

\* Times are tenths of a second; NoTime is a missing startTime or endTime.
\* The code subtracts doubles: on the times the specifications enumerate the
\* comparison of the difference with 0.5 is the exact one.
NoTime == -1

detectHesitation(info, index) ==
    IF index = 1 THEN FALSE
    ELSE LET curr == info[index]
             prev == info[index - 1]
         IN  IF curr.startTime = NoTime \/ prev.endTime = NoTime THEN FALSE
             ELSE curr.startTime - prev.endTime > 5

\* the word of a spoken record is missing or empty (!word || !word.word)
noWord(rec) == rec.word = Null \/ rec.word = <<>>

\* First pass of analyzePronunciation: errors.hesitations (spokenIndex is 0-based)
RECURSIVE hesitationsFrom(_, _)
hesitationsFrom(info, i) ==
    IF i > Len(info) THEN <<>>
    ELSE LET word == info[i]
             here == IF noWord(word) THEN <<>>
                     ELSE IF isFillerWord(word.word)
                     THEN <<[spokenIndex |-> i - 1, type |-> "filler", word |-> word.word]>>
                     ELSE IF detectHesitation(info, i)
                     THEN <<[spokenIndex |-> i - 1, type |-> "pause", word |-> word.word]>>
                     ELSE <<>>
         IN  here \o hesitationsFrom(info, i + 1)

\* First pass of analyzePronunciation: errors.repeatedWords
RECURSIVE repeatedWordsFrom(_, _)
repeatedWordsFrom(info, i) ==
    IF i > Len(info) THEN <<>>
    ELSE LET word == info[i]
             here == IF /\ ~noWord(word)
                        /\ i > 1
                        /\ ~noWord(info[i - 1])
                        /\ normalizeWord(word.word) = normalizeWord(info[i - 1].word)
                     THEN <<[spokenIndex |-> i - 1, word |-> word.word]>>
                     ELSE <<>>
         IN  here \o repeatedWordsFrom(info, i + 1)

\* Second loop of analyzePronunciation: cleanSpoken
RECURSIVE filterSpoken(_, _, _)
filterSpoken(info, i, clean) ==
    IF i > Len(info) THEN clean
    ELSE LET word == info[i]
         IN  IF noWord(word) \/ isFillerWord(word.word)
             THEN filterSpoken(info, i + 1, clean)
             ELSE IF /\ clean # <<>>
                     /\ normalizeWord(word.word) = normalizeWord(clean[Len(clean)].word)
             THEN filterSpoken(info, i + 1, clean)
             ELSE filterSpoken(info, i + 1, Append(clean, word))

cleanSpokenOf(info) == filterSpoken(info, 1, <<>>)

\* matchScore of one cell of the alignment table
matchScore(expected, spoken) ==
    LET expNorm == normalizeWord(expected)
        spkNorm == normalizeWord(spoken)
    IN  IF expNorm = spkNorm \/ arePhoneticEquivalents(expNorm, spkNorm) THEN Scale
        ELSE IF wordsAreSimilar(expected, spoken) THEN (3 * Scale) \div 10
        ELSE -Scale

\* The scores of the alignment table are IEEE-754 doubles.  A double near
\* t / 10 is the pair <<t, d>> with 5 * x * 2^54 = t * 2^53 + d: 1 is <<10, 0>>,
\* 0.5 is <<5, 0>> and the double 0.3 is <<3, -1>>.  doubleSum is the sum of
\* two doubles, rounded to the nearest double, the even one at a tie: in
\* units of 2^-54 a double of magnitude in [2^(k-2), 2^(k-1)) is a multiple of
\* 2^k, and 205 is the inverse of 5 modulo 256.
doubleSum(a, b) ==
    LET t0 == a[1] + b[1]
        d0 == a[2] + b[2]
        negative == t0 < 0 \/ (t0 = 0 /\ d0 < 0)
        t == IF negative THEN -t0 ELSE t0
        d == IF negative THEN -d0 ELSE d0
        atLeast(tenths) == t > tenths \/ (t = tenths /\ d >= 0)
        g == IF atLeast(320) THEN 128 ELSE IF atLeast(160) THEN 64
             ELSE IF atLeast(80) THEN 32 ELSE IF atLeast(40) THEN 16
             ELSE IF atLeast(20) THEN 8 ELSE IF atLeast(10) THEN 4
             ELSE IF atLeast(5) THEN 2 ELSE 1
        r == (205 * d) % g
        delta == IF 2 * r < g THEN -r
                 ELSE IF 2 * r > g THEN g - r
                 ELSE IF (205 * d) % (2 * g) = r THEN -r ELSE g - r
        rounded == d + 5 * delta
    IN  IF negative THEN <<-t, -rounded>> ELSE <<t, rounded>>

\* a >= b for two doubles
doubleAtLeast(a, b) == a[1] > b[1] \/ (a[1] = b[1] /\ a[2] >= b[2])

\* the double of a matchScore: 1, 0.3 or -1
scoreAsDouble(score) ==
    IF score = Scale THEN <<10, 0>> ELSE IF score = -Scale THEN <<-10, 0>> ELSE <<3, -1>>

\* One cell dp[i][j], path[i][j] for i, j >= 1, from the three neighbours.
alignCell(diag, up, left, score) ==
    LET matchOption == doubleSum(diag.score, score)
        skipOption == doubleSum(up.score, <<-10, 0>>)
        insertOption == doubleSum(left.score, <<-5, 0>>)
    IN  IF doubleAtLeast(matchOption, skipOption) /\ doubleAtLeast(matchOption, insertOption)
        THEN [score |-> matchOption, path |-> "match"]
        ELSE IF doubleAtLeast(skipOption, insertOption)
        THEN [score |-> skipOption, path |-> "skip"]
        ELSE [score |-> insertOption, path |-> "insert"]

\* Row i >= 1 of the table; cur[j+1] is the cell (i, j), prev[j+1] the cell (i-1, j).
RECURSIVE alignRow(_, _, _, _)
alignRow(prev, cur, expected, clean) ==
    LET j == Len(cur)
    IN  IF j > Len(clean) THEN cur
        ELSE alignRow(prev,
                      Append(cur, alignCell(prev[j], prev[j + 1], cur[j],
                                            scoreAsDouble(matchScore(expected, clean[j].word)))),
                      expected, clean)

\* rows[i+1] is row i of dp and path: dp[i][0] = -i, dp[0][j] = -j * 0.5
RECURSIVE alignRows(_, _, _)
alignRows(rows, expected, clean) ==
    LET i == Len(rows)
    IN  IF i > Len(expected) THEN rows
        ELSE alignRows(Append(rows,
                              alignRow(rows[i], <<[score |-> <<-(10 * i), 0>>, path |-> "skip"]>>,
                                       expected[i], clean)),
                       expected, clean)

alignTable(expected, clean) ==
    alignRows(<<[j \in 1..(Len(clean) + 1) |->
                    IF j = 1 THEN [score |-> <<0, 0>>, path |-> "none"]
                    ELSE [score |-> <<-(5 * (j - 1)), 0>>, path |-> "insert"]]>>,
              expected, clean)

\* A faulty 'match' branch that counts every matched pair as correct, the
\* misread ones included: the fault that C2 excludes.
onMatch_CountsEveryMatch(acc, exp, spoken, i) ==
    LET expNorm == normalizeWord(exp)
        spkNorm == normalizeWord(spoken.word)
        isCorrect == expNorm = spkNorm \/ arePhoneticEquivalents(expNorm, spkNorm)
    IN  [acc EXCEPT
           !.aligned = <<[expected |-> exp, spoken |-> spoken.word,
                          status |-> IF isCorrect THEN "correct" ELSE "misread",
                          index |-> i - 1]>> \o @,
           !.correctCount = @ + 1,
           !.errors.misreadWords =
               IF isCorrect THEN @
               ELSE Append(@, [index |-> i - 1, expected |-> exp, spoken |-> spoken.word])]

\* The 'match' branch of the backtrack loop at the cell (i, j): the entry of
\* expected word i (0-based index i - 1) is put in front of the alignment.
onMatch(acc, exp, spoken, i) ==
    LET expNorm == normalizeWord(exp)
        spkNorm == normalizeWord(spoken.word)
    IN  IF expNorm = spkNorm \/ arePhoneticEquivalents(expNorm, spkNorm)
        THEN [acc EXCEPT
                !.aligned = <<[expected |-> exp, spoken |-> spoken.word,
                               status |-> "correct", index |-> i - 1]>> \o @,
                !.correctCount = @ + 1]
        ELSE [acc EXCEPT
                !.aligned = <<[expected |-> exp, spoken |-> spoken.word,
                               status |-> "misread", index |-> i - 1]>> \o @,
                !.errors.misreadWords =
                    Append(@, [index |-> i - 1, expected |-> exp, spoken |-> spoken.word])]

\* A faulty 'skip' branch that records the skipped index but puts no entry in
\* the alignment: the fault that C1 excludes.
onSkip_NoEntry(acc, exp, i) ==
    [acc EXCEPT !.errors.skippedWords = Append(@, i - 1)]

\* A faulty 'skip' branch that records the skipped word by its 1-based
\* position: the fault that C30 excludes.
onSkip_OneBasedIndex(acc, exp, i) ==
    [acc EXCEPT
       !.aligned = <<[expected |-> exp, spoken |-> Null,
                      status |-> "skipped", index |-> i - 1]>> \o @,
       !.errors.skippedWords = Append(@, i)]

\* The 'skip' branch of the backtrack loop at the cell (i, j).
onSkip(acc, exp, i) ==
    [acc EXCEPT
       !.aligned = <<[expected |-> exp, spoken |-> Null,
                      status |-> "skipped", index |-> i - 1]>> \o @,
       !.errors.skippedWords = Append(@, i - 1)]

\* A faulty backtrack loop whose 'insert' branch puts an entry for the
\* inserted spoken word in the alignment: the fault that C28 excludes.
RECURSIVE backtrack_InsertMakesEntry(_, _, _, _, _, _)
backtrack_InsertMakesEntry(i, j, table, expected, clean, acc) ==
    IF ~(i > 0 \/ j > 0) THEN acc
    ELSE LET action == table[i + 1][j + 1].path
         IN  IF action = "match"
             THEN backtrack_InsertMakesEntry(i - 1, j - 1, table, expected, clean,
                                             onMatch(acc, expected[i], clean[j], i))
             ELSE IF action = "skip"
             THEN backtrack_InsertMakesEntry(i - 1, j, table, expected, clean,
                                             onSkip(acc, expected[i], i))
             ELSE IF action = "insert"
             THEN backtrack_InsertMakesEntry(i, j - 1, table, expected, clean,
                      [acc EXCEPT !.aligned = <<[expected |-> Null, spoken |-> clean[j].word,
                                                 status |-> "inserted", index |-> i - 1]>> \o @])
             ELSE acc

\* The backtrack loop from the cell (i, j); acc is the analysis being filled.
RECURSIVE backtrack(_, _, _, _, _, _)
backtrack(i, j, table, expected, clean, acc) ==
    IF ~(i > 0 \/ j > 0) THEN acc
    ELSE LET action == table[i + 1][j + 1].path
         IN  IF action = "match"
             THEN backtrack(i - 1, j - 1, table, expected, clean,
                            onMatch(acc, expected[i], clean[j], i))
             ELSE IF action = "skip"
             THEN backtrack(i - 1, j, table, expected, clean, onSkip(acc, expected[i], i))
             ELSE IF action = "insert"
             THEN backtrack(i, j - 1, table, expected, clean, acc)
             ELSE acc

analyzePronunciation(expected, info) ==
    LET clean == cleanSpokenOf(info)
        start == [aligned |-> <<>>,
                  errors |-> [skippedWords |-> <<>>, misreadWords |-> <<>>,
                              substitutedWords |-> <<>>,
                              hesitations |-> hesitationsFrom(info, 1),
                              repeatedWords |-> repeatedWordsFrom(info, 1),
                              skippedLines |-> <<>>, repeatedPhrases |-> <<>>],
                  correctCount |-> 0]
    IN  backtrack(Len(expected), Len(clean), alignTable(expected, clean), expected, clean, start)

(***************************************************************************)
(* ErrorPatternAnalyzer: analyzeErrorPatterns, app.js 1639-1746.           *)
(***************************************************************************)
blends == << <<"b","l">>, <<"c","l">>, <<"f","l">>, <<"g","l">>, <<"p","l">>, <<"b","r">>,
             <<"c","r">>, <<"d","r">>, <<"f","r">>, <<"g","r">>, <<"t","r">>, <<"s","c">>,
             <<"s","k">>, <<"s","p">>, <<"s","t">> >>

digraphs == << <<"c","h">>, <<"s","h">>, <<"t","h">>, <<"p","h">>, <<"w","h">> >>

visualPairs == << <<"b","d">>, <<"p","q">>, <<"m","n">>, <<"u","n">> >>

\* [f(s[1]), ..., f(s[n])]
mapSeq(s, f(_)) == [i \in 1..Len(s) |-> f(s[i])]

analyzePhonicsPattern(expected, actual, pat) ==
    IF expected = <<>> \/ actual = <<>> THEN pat
    ELSE LET missing(list) ==
                 SelectSeq(list, LAMBDA b : includes(expected, b) /\ ~includes(actual, b))
         IN  [pat EXCEPT
                !.phonicsPatterns.initialSoundErrors =
                    IF expected[1] # actual[1]
                    THEN Append(@, [expected |-> expected, actual |-> actual,
                                    pattern |-> "Initial consonant substitution"])
                    ELSE @,
                !.phonicsPatterns.finalSoundErrors =
                    IF expected[Len(expected)] # actual[Len(actual)]
                    THEN Append(@, [expected |-> expected, actual |-> actual,
                                    pattern |-> "Final sound error"])
                    ELSE @,
                !.phonicsPatterns.consonantBlends =
                    @ \o mapSeq(missing(blends),
                                LAMBDA b : [expected |-> expected, actual |-> actual,
                                            blend |-> b, pattern |-> "Consonant blend reduction"]),
                !.phonicsPatterns.digraphs =
                    @ \o mapSeq(missing(digraphs),
                                LAMBDA d : [expected |-> expected, actual |-> actual,
                                            digraph |-> d, pattern |-> "Digraph error"])]

analyzeReadingStrategy(expected, actual, pat) ==
    IF expected = <<>> \/ actual = <<>> THEN pat
    ELSE IF /\ expected[1] = actual[1] /\ Len(expected) > 2 /\ Len(actual) > 2
            \* similarity = 1 - distance / maxLen < 0.5
            /\ 2 * levenshteinDistance(expected, actual) > Max(Len(expected), Len(actual))
    THEN [pat EXCEPT !.readingStrategies.firstLetterGuessing =
              Append(@, [expected |-> expected, actual |-> actual,
                         pattern |-> "First letter guessing"])]
    ELSE pat

\* A faulty speech-pattern check that looks for the 'r' in the spoken word and
\* the 'w' in the expected one: the fault that C10 excludes.
analyzeSpeechPattern_Swapped(expected, actual, pat) ==
    IF expected = <<>> \/ actual = <<>> THEN pat
    ELSE [pat EXCEPT
            !.speechPatterns.rSoundIssues =
                IF includes(actual, <<"r">>) /\ includes(expected, <<"w">>)
                THEN Append(@, [expected |-> expected, actual |-> actual,
                                pattern |-> "R -> W substitution"])
                ELSE @,
            !.speechPatterns.thSoundIssues =
                IF /\ includes(expected, <<"t","h">>)
                   /\ (includes(actual, <<"d">>) \/ includes(actual, <<"t">>)
                       \/ includes(actual, <<"f">>))
                THEN Append(@, [expected |-> expected, actual |-> actual,
                                pattern |-> "TH substitution"])
                ELSE @]

analyzeSpeechPattern(expected, actual, pat) ==
    IF expected = <<>> \/ actual = <<>> THEN pat
    ELSE [pat EXCEPT
            !.speechPatterns.rSoundIssues =
                IF includes(expected, <<"r">>) /\ includes(actual, <<"w">>)
                THEN Append(@, [expected |-> expected, actual |-> actual,
                                pattern |-> "R -> W substitution"])
                ELSE @,
            !.speechPatterns.thSoundIssues =
                IF /\ includes(expected, <<"t","h">>)
                   /\ (includes(actual, <<"d">>) \/ includes(actual, <<"t">>)
                       \/ includes(actual, <<"f">>))
                THEN Append(@, [expected |-> expected, actual |-> actual,
                                pattern |-> "TH substitution"])
                ELSE @]

analyzeVisualSimilarity(expected, actual, pat) ==
    IF expected = <<>> \/ actual = <<>> THEN pat
    ELSE IF \E k \in DOMAIN visualPairs :
               \/ includes(expected, <<visualPairs[k][1]>>) /\ includes(actual, <<visualPairs[k][2]>>)
               \/ includes(expected, <<visualPairs[k][2]>>) /\ includes(actual, <<visualPairs[k][1]>>)
    THEN [pat EXCEPT !.visualSimilarityErrors =
              Append(@, [expected |-> expected, actual |-> actual,
                         pattern |-> "Visual similarity confusion"])]
    ELSE pat

\* A severity whose bands end one error late: five errors are still mild and
\* ten still moderate.
severityOf_BandsOneLate(totalErrors) ==
    IF totalErrors = 0 THEN "excellent"
    ELSE IF totalErrors <= 5 THEN "mild"
    ELSE IF totalErrors <= 10 THEN "moderate"
    ELSE "significant"

\* summary.severity
severityOf(totalErrors) ==
    IF totalErrors = 0 THEN "excellent"
    ELSE IF totalErrors < 5 THEN "mild"
    ELSE IF totalErrors < 10 THEN "moderate"
    ELSE "significant"

generatePatternSummary(pat, an) ==
    LET totalErrors == Len(an.errors.skippedWords) + Len(an.errors.misreadWords)
                       + Len(an.errors.substitutedWords)
        flags == <<
            <<Len(pat.phonicsPatterns.initialSoundErrors) >= 3,
              "Consistent initial sound errors", "Focus on initial consonant sounds">>,
            <<Len(pat.phonicsPatterns.consonantBlends) >= 2,
              "Difficulty with consonant blends", "Practice blending sounds together">>,
            <<Len(pat.readingStrategies.firstLetterGuessing) >= 2,
              "Guessing based on first letter", "Encourage sounding out entire word">>,
            <<\/ Len(pat.speechPatterns.rSoundIssues) >= 3
              \/ Len(pat.speechPatterns.thSoundIssues) >= 2,
              "Speech sound difficulties detected", "Consider speech-language evaluation">> >>
        raised == SelectSeq(flags, LAMBDA f : f[1])
    IN  [primaryIssues |-> mapSeq(raised, LAMBDA f : f[2]),
         recommendations |-> mapSeq(raised, LAMBDA f : f[3]),
         severity |-> severityOf(totalErrors)]

emptyPatterns ==
    [phonicsPatterns |-> [initialSoundErrors |-> <<>>, finalSoundErrors |-> <<>>,
                          vowelPatterns |-> <<>>, consonantBlends |-> <<>>,
                          silentLetters |-> <<>>, rControlledVowels |-> <<>>,
                          digraphs |-> <<>>],
     readingStrategies |-> [firstLetterGuessing |-> <<>>, contextGuessing |-> <<>>,
                            partialDecoding |-> <<>>],
     speechPatterns |-> [rSoundIssues |-> <<>>, sSoundIssues |-> <<>>,
                         lSoundIssues |-> <<>>, thSoundIssues |-> <<>>],
     morphologicalErrors |-> <<>>, visualSimilarityErrors |-> <<>>,
     summary |-> [primaryIssues |-> <<>>, recommendations |-> <<>>, severity |-> "mild"]]

\* the forEach over errors.misreadWords, from its k-th element on
RECURSIVE patternsOfMisreads(_, _, _)
patternsOfMisreads(misreads, k, pat) ==
    IF k > Len(misreads) THEN pat
    ELSE LET expected == toLowerCase(misreads[k].expected)
             actual == toLowerCase(misreads[k].spoken)
         IN  IF expected = <<>> \/ actual = <<>>
             THEN patternsOfMisreads(misreads, k + 1, pat)
             ELSE patternsOfMisreads(misreads, k + 1,
                      analyzeVisualSimilarity(expected, actual,
                          analyzeSpeechPattern(expected, actual,
                              analyzeReadingStrategy(expected, actual,
                                  analyzePhonicsPattern(expected, actual, pat)))))

analyzeErrorPatterns(an) ==
    LET pat == patternsOfMisreads(an.errors.misreadWords, 1, emptyPatterns)
    IN  [pat EXCEPT !.summary = generatePatternSummary(pat, an)]

(***************************************************************************)
(* ProsodyScorer: calculateProsodyMetrics, app.js 1748-1781.               *)
(* Times are tenths of a second; accuracy is the percentage times Scale;   *)
(* the sub-scores and prosodyScore are tenths of a point.                  *)
(***************************************************************************)
\* A quotient that is cut off instead of rounded.
roundDiv_Truncating(num, den) == num \div den

\* Math.round of the non-negative quotient num / den
roundDiv(num, den) == (2 * num + den) \div (2 * den)

accuracyPointsOf(correctCount, totalWords) ==
    LET atLeast(pct) == totalWords > 0 /\ 100 * correctCount >= pct * totalWords
    IN  IF atLeast(98) THEN 40 ELSE IF atLeast(95) THEN 35 ELSE IF atLeast(90) THEN 30
        ELSE IF atLeast(85) THEN 25 ELSE IF atLeast(75) THEN 20 ELSE 15

ratePointsOf(wpm) ==
    IF wpm >= 100 /\ wpm <= 180 THEN 40
    ELSE IF wpm >= 80 /\ wpm <= 200 THEN 35
    ELSE IF wpm >= 60 /\ wpm <= 220 THEN 30
    ELSE 20

fluencyPointsOf(totalErrors, totalWords) ==
    LET atMost(pct) == totalWords = 0 \/ 100 * totalErrors <= pct * totalWords
    IN  IF atMost(2) THEN 40 ELSE IF atMost(5) THEN 35 ELSE IF atMost(10) THEN 30
        ELSE IF atMost(20) THEN 25 ELSE 20

\* A blend whose weights 0.4, 0.4, 0.3 add up to more than one.
blendPoints_WeightsAboveOne(a, r, f) == (4 * a + 4 * r + 3 * f + 5) \div 10

\* Math.round((a * 0.4 + r * 0.3 + f * 0.3) * 10), in tenths of a point.  In
\* IEEE-754 doubles the blend of 2.5, 3.5 and 3 is 2.9499999999999997, which
\* rounds down; every other blend of the bands rounds as its exact value does.
blendPoints(a, r, f) ==
    IF a = 25 /\ r = 35 /\ f = 30 THEN 29
    ELSE (4 * a + 3 * r + 3 * f + 5) \div 10

\* A faulty accuracy that counts an empty passage as read without error: the
\* fault that C12 excludes.
accuracyOf_EmptyIsPerfect(correctCount, totalWords) ==
    IF totalWords > 0 THEN (correctCount * 100 * Scale) \div totalWords ELSE 100 * Scale

\* metrics.accuracy: 0 unless totalWords > 0
accuracyOf(correctCount, totalWords) ==
    IF totalWords > 0 THEN (correctCount * 100 * Scale) \div totalWords ELSE 0

calculateProsodyMetrics(expected, info, an, recordingDurationSeconds) ==
    LET totalWords == Len(expected)
        wordsRead == an.correctCount + Len(an.errors.misreadWords)
        readingTime ==
            IF Len(info) > 0 /\ info[1].startTime # NoTime /\ info[Len(info)].endTime # NoTime
            THEN info[Len(info)].endTime - info[1].startTime
            ELSE recordingDurationSeconds
        wpm == IF readingTime > 0 THEN roundDiv(600 * wordsRead, readingTime) ELSE 0
        accuracy == accuracyOf(an.correctCount, totalWords)
        totalErrors == Len(an.errors.skippedWords) + Len(an.errors.misreadWords)
                       + Len(an.errors.hesitations)
        prosodyScore == blendPoints(accuracyPointsOf(an.correctCount, totalWords),
                                    ratePointsOf(wpm),
                                    fluencyPointsOf(totalErrors, totalWords))
    IN  [totalWords |-> totalWords, wordsRead |-> wordsRead, accuracy |-> accuracy,
         wpm |-> wpm, prosodyScore |-> prosodyScore,
         prosodyGrade |-> IF prosodyScore >= 38 THEN "Excellent"
                          ELSE IF prosodyScore >= 30 THEN "Proficient"
                          ELSE IF prosodyScore >= 20 THEN "Developing"
                          ELSE "Needs Support",
         readingTime |-> readingTime]

(***************************************************************************)
(* RangeLocator: findSpokenRangeInOCR, app.js 1075-1117 and 1219-1344.     *)
(* OCR indices are 0-based as in the code; -1 is "none".                   *)
(***************************************************************************)
buildSimilarityMatrix(spoken, ocr) ==
    [s \in 1..Len(spoken) |-> [o \in 1..Len(ocr) |-> calculateWordSimilarity(spoken[s], ocr[o])]]

MATCH_THRESHOLD == (55 * Scale) \div 100
SKIP_PENALTY == (30 * Scale) \div 100
GAP_PENALTY == (40 * Scale) \div 100

\* a fresh dp entry of the start offset startOCR
freshState(startOCR) ==
    [score |-> 0, matchCount |-> 0, lastOCR |-> startOCR - 1, firstOCR |-> -1]

\* The loop over o of spoken word s (0-based) from OCR index o on; cur is dp[s + 1].
RECURSIVE extendLoop(_, _, _, _, _, _)
extendLoop(prevState, cur, o, s, n, similarityMatrix) ==
    IF o >= n THEN cur
    ELSE LET sim == similarityMatrix[s + 1][o + 1]
             skippedOCR == o - prevState.lastOCR - 1
             newScore == prevState.score + sim - skippedOCR * SKIP_PENALTY
             next == IF sim >= MATCH_THRESHOLD /\ newScore > cur.score
                     THEN [score |-> newScore,
                           matchCount |-> prevState.matchCount + 1,
                           lastOCR |-> o,
                           firstOCR |-> IF prevState.firstOCR = -1 THEN o
                                        ELSE prevState.firstOCR]
                     ELSE cur
         IN  extendLoop(prevState, next, o + 1, s, n, similarityMatrix)

\* dp[s + 1] from dp[s] = prevState: the best extension, or the dropped word
dpStep(prevState, s, startOCR, n, similarityMatrix) ==
    LET extended == extendLoop(prevState, freshState(startOCR), prevState.lastOCR + 1,
                               s, n, similarityMatrix)
    IN  IF prevState.score - GAP_PENALTY > extended.score
        THEN [score |-> prevState.score - GAP_PENALTY,
              matchCount |-> prevState.matchCount,
              lastOCR |-> prevState.lastOCR,
              firstOCR |-> prevState.firstOCR]
        ELSE extended

\* dp[0..m] of the start offset startOCR; dp is its part computed so far
RECURSIVE dpFrom(_, _, _, _, _)
dpFrom(dp, startOCR, m, n, similarityMatrix) ==
    IF Len(dp) > m THEN dp
    ELSE dpFrom(Append(dp, dpStep(dp[Len(dp)], Len(dp) - 1, startOCR, n, similarityMatrix)),
                startOCR, m, n, similarityMatrix)

\* finalState = dp[m] of the start offset startOCR
finalStateOf(startOCR, m, n, similarityMatrix) ==
    dpFrom(<<freshState(startOCR)>>, startOCR, m, n, similarityMatrix)[m + 1]

\* the loop over the start offsets from startOCR on; best is the best seen so far
RECURSIVE bestFrom(_, _, _, _, _)
bestFrom(best, startOCR, m, n, similarityMatrix) ==
    IF startOCR >= n THEN best
    ELSE LET finalState == finalStateOf(startOCR, m, n, similarityMatrix)
         IN  bestFrom(IF finalState.matchCount >= 2 /\ finalState.score > best.score
                      THEN [firstOCRIndex |-> finalState.firstOCR,
                            lastOCRIndex |-> finalState.lastOCR,
                            matchedCount |-> finalState.matchCount,
                            score |-> finalState.score]
                      ELSE best,
                      startOCR + 1, m, n, similarityMatrix)

findBestAlignment(spoken, ocr, similarityMatrix) ==
    bestFrom([firstOCRIndex |-> -1, lastOCRIndex |-> -1, matchedCount |-> 0, score |-> 0],
             0, Len(spoken), Len(ocr), similarityMatrix)

noMatch == [firstIndex |-> -1, lastIndex |-> -1, matchedCount |-> 0]

ocrWordCounts(ocr, w) == Cardinality({o \in DOMAIN ocr : ocr[o] = w})

\* the anchors of spoken word s (0-based) with the OCR words from index o on
RECURSIVE anchorsOfWord(_, _, _, _)
anchorsOfWord(spoken, ocr, s, o) ==
    IF o >= Len(ocr) THEN <<>>
    ELSE LET sim == calculateWordSimilarity(spoken[s + 1], ocr[o + 1])
             here == IF ocrWordCounts(ocr, ocr[o + 1]) > 2 THEN <<>>
                     ELSE IF sim >= (60 * Scale) \div 100
                     THEN <<[spokenIdx |-> s, ocrIdx |-> o, similarity |-> sim]>>
                     ELSE <<>>
         IN  here \o anchorsOfWord(spoken, ocr, s, o + 1)

\* A faulty anchor search that also passes over the spoken words of exactly
\* four characters: the fault that C4 excludes.
RECURSIVE anchorsFrom_LongerThanFour(_, _, _)
anchorsFrom_LongerThanFour(spoken, ocr, s) ==
    IF s >= Len(spoken) THEN <<>>
    ELSE (IF Len(spoken[s + 1]) <= 4 THEN <<>> ELSE anchorsOfWord(spoken, ocr, s, 0))
         \o anchorsFrom_LongerThanFour(spoken, ocr, s + 1)

\* the anchors of the spoken words from index s on, in the order they are
\* pushed; that order is ascending in spokenIdx, so the sort leaves it as it is
RECURSIVE anchorsFrom(_, _, _)
anchorsFrom(spoken, ocr, s) ==
    IF s >= Len(spoken) THEN <<>>
    ELSE (IF Len(spoken[s + 1]) < 4 THEN <<>> ELSE anchorsOfWord(spoken, ocr, s, 0))
         \o anchorsFrom(spoken, ocr, s + 1)

\* the loop over anchors[1..] (0-based i) that extends the current run
RECURSIVE anchorRuns(_, _, _)
anchorRuns(anchors, i, run) ==
    IF i >= Len(anchors) THEN run
    ELSE LET ocrIdx == anchors[i + 1].ocrIdx
         IN  IF ocrIdx > run.currentEnd
             THEN LET count == run.matchCount + 1
                  IN  anchorRuns(anchors, i + 1,
                        IF count > run.bestMatchCount
                        THEN [run EXCEPT !.currentEnd = ocrIdx, !.matchCount = count,
                                         !.bestMatchCount = count,
                                         !.bestStart = run.currentStart,
                                         !.bestEnd = ocrIdx]
                        ELSE [run EXCEPT !.currentEnd = ocrIdx, !.matchCount = count])
             ELSE IF ocrIdx < run.currentStart
             THEN anchorRuns(anchors, i + 1,
                        [run EXCEPT !.currentStart = ocrIdx, !.currentEnd = ocrIdx,
                                    !.matchCount = 1])
             ELSE anchorRuns(anchors, i + 1, run)

\* A faulty fallback that hands the best run back with its two ends
\* exchanged: the fault that C26 excludes.
findRangeByAnchors_EndsExchanged(spoken, ocr) ==
    LET anchors == anchorsFrom(spoken, ocr, 0)
    IN  IF Len(anchors) = 0 THEN noMatch
        ELSE LET first == anchors[1].ocrIdx
                 run == anchorRuns(anchors, 1,
                            [bestStart |-> first, bestEnd |-> first,
                             currentStart |-> first, currentEnd |-> first,
                             matchCount |-> 1, bestMatchCount |-> 1])
             IN  [firstIndex |-> run.bestEnd, lastIndex |-> run.bestStart,
                  matchedCount |-> run.bestMatchCount]

findRangeByAnchors(spoken, ocr) ==
    LET anchors == anchorsFrom(spoken, ocr, 0)
    IN  IF Len(anchors) = 0 THEN noMatch
        ELSE LET first == anchors[1].ocrIdx
                 run == anchorRuns(anchors, 1,
                            [bestStart |-> first, bestEnd |-> first,
                             currentStart |-> first, currentEnd |-> first,
                             matchCount |-> 1, bestMatchCount |-> 1])
             IN  [firstIndex |-> run.bestStart, lastIndex |-> run.bestEnd,
                  matchedCount |-> run.bestMatchCount]

\* A faulty cleanSpoken that keeps the filler words: the fault that C13
\* excludes.
cleanSpokenForRange_KeepsFillers(spokenWords) ==
    LET kept == SelectSeq(spokenWords, LAMBDA w : ~noWord(w))
        mapped == [i \in 1..Len(kept) |-> normalizeWordForMatching(kept[i].word)]
    IN  SelectSeq(mapped, LAMBDA w : Len(w) > 0)

\* cleanSpoken of findSpokenRangeInOCR: fillers and empty words dropped, the
\* rest normalized, and what normalizes to the empty string dropped
cleanSpokenForRange(spokenWords) ==
    LET kept == SelectSeq(spokenWords, LAMBDA w : ~noWord(w) /\ ~isFillerWord(w.word))
        mapped == [i \in 1..Len(kept) |-> normalizeWordForMatching(kept[i].word)]
    IN  SelectSeq(mapped, LAMBDA w : Len(w) > 0)

cleanOCROf(ocr) == [i \in 1..Len(ocr) |-> normalizeWordForMatching(ocr[i])]

findSpokenRangeInOCR(spokenWords, ocr) ==
    LET cleanSpoken == cleanSpokenForRange(spokenWords)
        cleanOCR == cleanOCROf(ocr)
    IN  IF Len(cleanSpoken) = 0 \/ Len(cleanOCR) = 0 THEN noMatch
        ELSE LET alignment == findBestAlignment(cleanSpoken, cleanOCR,
                                                buildSimilarityMatrix(cleanSpoken, cleanOCR))
             IN  IF alignment.firstOCRIndex = -1 \/ alignment.lastOCRIndex = -1
                 THEN findRangeByAnchors(cleanSpoken, cleanOCR)
                 ELSE [firstIndex |-> alignment.firstOCRIndex,
                       lastIndex |-> alignment.lastOCRIndex,
                       matchedCount |-> alignment.matchedCount]

(***************************************************************************)
(* The raw tokens the normalizer is run on.                                *)
(***************************************************************************)
RawAlphabet == {"n", "'", "t", "s", "1", "T"}

RawTokens ==
    SeqsUpTo(RawAlphabet, MaxTokenLen)
    \cup {w_dont, w_cat_s, w_were, w_ive, w_well, w_hed, w_10, w_12, w_13, w_7,
          w_ten, w_The, w_cat, w_constructor, w_proto}

(***************************************************************************)
(* SpecNormalize: a raw token is normalized, and its normal form again.    *)
(***************************************************************************)
InitNormalize ==
    /\ pc = "normalize"
    /\ rawToken \in RawTokens
    /\ normalized = <<>>
    /\ word1 = Null /\ word2 = Null /\ sim12 = -1 /\ sim21 = -1
    /\ ocrWords = <<>> /\ spokenWordInfo = <<>> /\ expectedWords = <<>>
    /\ recordingDuration = 0
    /\ matchResult = Null /\ analysis = Null /\ patterns = Null /\ metrics = Null
    /\ word3 = Null /\ distances = Null

Normalize ==
    /\ pc = "normalize"
    /\ Len(normalized) = 0
    /\ normalized' = <<normalizeWordForMatching(rawToken)>>
    /\ UNCHANGED <<pc, rawToken, word1, word2, word3, distances, sim12, sim21, ocrWords, spokenWordInfo,
                   expectedWords, recordingDuration, matchResult, analysis, patterns,
                   metrics>>

NormalizeAgain ==
    /\ pc = "normalize"
    /\ Len(normalized) = 1
    /\ normalized' = Append(normalized, normalizeWordForMatching(normalized[1]))
    /\ UNCHANGED <<pc, rawToken, word1, word2, word3, distances, sim12, sim21, ocrWords, spokenWordInfo,
                   expectedWords, recordingDuration, matchResult, analysis, patterns,
                   metrics>>

NextNormalize == Normalize \/ NormalizeAgain

SpecNormalize == InitNormalize /\ [][NextNormalize]_vars

(***************************************************************************)
(* SpecSimilarity: two normalized tokens are scored in both orders.        *)
(***************************************************************************)
SimAlphabet == {"a", "b", "1", "l"}

SimTokens ==
    SeqsUpTo(SimAlphabet, MaxSimLen)
    \cup {w_the, w_a, w_uh, w_to, w_two, w_too, w_cat, w_cats, w_sat, w_mat, w_on,
          w_ten, w_run, w_running, w_runner, w_rabbit, w_wabbit, w_corn, w_com, w_dog,
          w_rabbits, w_generation, w_veneration,
          w_and, w_an, w_there, w_their, w_theyre, w_your, w_youre, w_were_plain,
          w_where, w_then, w_than}

InitSimilarity ==
    /\ pc = "similarity"
    /\ word1 \in SimTokens /\ word2 \in SimTokens
    /\ sim12 = -1 /\ sim21 = -1
    /\ rawToken = Null /\ normalized = <<>>
    /\ ocrWords = <<>> /\ spokenWordInfo = <<>> /\ expectedWords = <<>>
    /\ recordingDuration = 0
    /\ matchResult = Null /\ analysis = Null /\ patterns = Null /\ metrics = Null
    /\ word3 = Null /\ distances = Null

Similarity ==
    /\ pc = "similarity"
    /\ sim12 = -1
    /\ sim12' = calculateWordSimilarity(word1, word2)
    /\ UNCHANGED <<pc, rawToken, normalized, word1, word2, word3, distances, sim21, ocrWords, spokenWordInfo,
                   expectedWords, recordingDuration, matchResult, analysis, patterns,
                   metrics>>

SimilarityReversed ==
    /\ pc = "similarity"
    /\ sim12 # -1 /\ sim21 = -1
    /\ sim21' = calculateWordSimilarity(word2, word1)
    /\ UNCHANGED <<pc, rawToken, normalized, word1, word2, word3, distances, sim12, ocrWords, spokenWordInfo,
                   expectedWords, recordingDuration, matchResult, analysis, patterns,
                   metrics>>

NextSimilarity == Similarity \/ SimilarityReversed

SpecSimilarity == InitSimilarity /\ [][NextSimilarity]_vars

(***************************************************************************)
(* SpecLevenshtein: levenshteinDistance measures three short strings       *)
(* pairwise.                                                               *)
(***************************************************************************)
MaxLevLen == 3   \* length of the strings handed to levenshteinDistance

LevAlphabet == {"a", "b"}

LevStrings == SeqsUpTo(LevAlphabet, MaxLevLen)

InitLevenshtein ==
    /\ pc = "levenshtein"
    /\ word1 \in LevStrings /\ word2 \in LevStrings /\ word3 \in LevStrings
    /\ distances = Null
    /\ sim12 = -1 /\ sim21 = -1
    /\ rawToken = Null /\ normalized = <<>>
    /\ ocrWords = <<>> /\ spokenWordInfo = <<>> /\ expectedWords = <<>>
    /\ recordingDuration = 0
    /\ matchResult = Null /\ analysis = Null /\ patterns = Null /\ metrics = Null

Distances ==
    /\ pc = "levenshtein"
    /\ distances' = [aa |-> levenshteinDistance(word1, word1),
                    ab |-> levenshteinDistance(word1, word2),
                    ba |-> levenshteinDistance(word2, word1),
                    ac |-> levenshteinDistance(word1, word3),
                    cb |-> levenshteinDistance(word3, word2)]
    /\ pc' = "measured"
    /\ UNCHANGED <<rawToken, normalized, word1, word2, word3, sim12, sim21, ocrWords,
                   spokenWordInfo, expectedWords, recordingDuration, matchResult,
                   analysis, patterns, metrics>>

NextLevenshtein == Distances

SpecLevenshtein == InitLevenshtein /\ [][NextLevenshtein]_vars

(***************************************************************************)
(* Spec: a passage has been selected and recorded; performFullAnalysis     *)
(* (app.js 1795-1824) aligns the speech with it and derives the error      *)
(* patterns and the prosody metrics.                                       *)
(***************************************************************************)
ExpectedVocab == {w_cat, w_The, w_like, w_to}
SpokenVocab == {w_cat, w_cats, w_the, w_um, w_like, w_two}

\* the passages and readings of the documented scenarios
Scenarios == {
    <<<<w_cat, w_sat, w_on, w_the, w_mat>>, <<w_cat, w_sat, w_on, w_mat>>>>,
    <<<<w_rabbit>>, <<w_wabbit>>>>,
    <<<<w_ten, w_cats>>, <<w_10, w_cats>>>>,
    <<<<w_7, w_cats>>, <<<<"s","e","v","e","n">>, w_cats>>>>,
    <<<<w_run>>, <<w_running>>>>,
    <<<<w_cat, w_cat>>, <<w_cats, w_cat, w_the, w_cats>>>> }

\* a number word of the passage read out and recognised as its digit string
NumberScenarios ==
    { <<<<numberWords[k][2], w_cats>>, <<numberWords[k][1], w_cats>>>> : k \in DOMAIN numberWords }

\* passages of 4 to 11 words of which nothing is read, or one word is misread
SeverityLengths == {4, 5, 9, 10, 11}

SeverityScenarios ==
    { <<[i \in 1..k |-> w_cat], <<>>>> : k \in SeverityLengths }
    \cup { <<[i \in 1..k |-> w_rabbit], <<w_wabbit>>>> : k \in SeverityLengths }

AnalysisInputs ==
    (SeqsUpTo(ExpectedVocab, MaxExpected) \X SeqsUpTo(SpokenVocab, MaxSpoken))
    \cup Scenarios \cup NumberScenarios \cup SeverityScenarios

\* The recogniser's records of a reading: every word takes 0.3 s and follows
\* the word before it at once (no reading time is a multiple of 1.6 s, where
\* words per minute falls on a half and the rounding of doubles decides).
spokenRecords(words) ==
    [i \in 1..Len(words) |-> [word |-> words[i], startTime |-> 3 * (i - 1), endTime |-> 3 * i]]

wordsOf(info) == [i \in 1..Len(info) |-> info[i].word]

Init ==
    /\ pc = "selected"
    /\ \E input \in AnalysisInputs :
          /\ expectedWords = input[1]
          /\ spokenWordInfo = spokenRecords(input[2])
    /\ recordingDuration = 600
    /\ rawToken = Null /\ normalized = <<>>
    /\ word1 = Null /\ word2 = Null /\ sim12 = -1 /\ sim21 = -1
    /\ ocrWords = <<>>
    /\ matchResult = Null /\ analysis = Null /\ patterns = Null /\ metrics = Null
    /\ word3 = Null /\ distances = Null

performFullAnalysis ==
    /\ pc = "selected"
    /\ pc' = "results"
    /\ LET an == analyzePronunciation(expectedWords, spokenWordInfo)
       IN  /\ analysis' = an
           /\ patterns' = analyzeErrorPatterns(an)
           /\ metrics' = calculateProsodyMetrics(expectedWords, spokenWordInfo, an,
                                                 recordingDuration)
    /\ UNCHANGED <<rawToken, normalized, word1, word2, word3, distances, sim12, sim21, ocrWords,
                   spokenWordInfo, expectedWords, recordingDuration, matchResult>>

Next == performFullAnalysis

Spec == Init /\ [][Next]_vars

(***************************************************************************)
(* SpecRange: the recogniser's words are located in the OCR words of the   *)
(* page (the call of findSpokenRangeInOCR, app.js 1050).                   *)
(***************************************************************************)
MaxOcr == 3           \* number of OCR words of the enumerated pages
MaxRangeSpoken == 2   \* number of words of the enumerated recordings

OcrVocab == {w_cat, w_The, w_rabbit}
RangeSpokenVocab == {w_cat, w_cats, w_rabbit, w_um}

\* recordings with a token that normalizes to the empty string, with an empty
\* word, and of filler words that are on the page
RangeScenarios == {
    <<<<<<"'">>>>, <<w_cat>>>>,
    <<<<<<"'">>, w_rabbit>>, <<w_rabbit>>>>,
    <<<<w_cat, <<"'">>, w_corn>>, <<w_cat, w_corn>>>>,
    <<<<w_corn>>, <<w_com, w_cat>>>>,
    <<<<w_like>>, <<w_like>>>>,
    <<<<w_um, w_like>>, <<w_cat, w_like>>>>,
    <<<<<<>>, w_um>>, <<w_cat>>>> }

RangeInputs ==
    (SeqsUpTo(RangeSpokenVocab, MaxRangeSpoken) \X SeqsUpTo(OcrVocab, MaxOcr))
    \cup RangeScenarios

InitRange ==
    /\ pc = "recorded"
    /\ \E input \in RangeInputs :
          /\ spokenWordInfo = spokenRecords(input[1])
          /\ ocrWords = input[2]
    /\ matchResult = Null
    /\ rawToken = Null /\ normalized = <<>>
    /\ word1 = Null /\ word2 = Null /\ sim12 = -1 /\ sim21 = -1
    /\ expectedWords = <<>> /\ recordingDuration = 0
    /\ analysis = Null /\ patterns = Null /\ metrics = Null
    /\ word3 = Null /\ distances = Null

locateRange ==
    /\ pc = "recorded"
    /\ pc' = "located"
    /\ matchResult' = findSpokenRangeInOCR(spokenWordInfo, ocrWords)
    /\ UNCHANGED <<rawToken, normalized, word1, word2, word3, distances, sim12, sim21, ocrWords,
                   spokenWordInfo, expectedWords, recordingDuration, analysis, patterns,
                   metrics>>

NextRange == locateRange

SpecRange == InitRange /\ [][NextRange]_vars

(***************************************************************************)
(* SpecTiming: performFullAnalysis on recordings whose words come with     *)
(* pauses between them, with no duration, or without times (the transcript *)
(* fallback of runSpeechToText, app.js 1442-1447), and with or without a   *)
(* recording duration.                                                     *)
(***************************************************************************)
MaxTimingWords == 2   \* number of words of the enumerated passages and recordings

\* the pauses before a word, in tenths of a second
Gaps == {0, 5, 7, 10, 11}

\* <<pause before the word, duration of the word>>; NoTime: the word has no times.
\* (A pause of 0.5 s is exact in doubles after the word ends the model reaches.)
TimingChoices == {<<g, 4>> : g \in Gaps} \cup {<<0, 0>>, <<NoTime, NoTime>>}

\* the records of the words from the i-th on; clock is the end of the last timed word
RECURSIVE recordsFrom(_, _, _, _)
recordsFrom(words, choices, i, clock) ==
    IF i > Len(words) THEN <<>>
    ELSE IF choices[i][1] = NoTime
    THEN <<[word |-> words[i], startTime |-> NoTime, endTime |-> NoTime]>>
         \o recordsFrom(words, choices, i + 1, clock)
    ELSE LET start == clock + choices[i][1]
             end == start + choices[i][2]
         IN  <<[word |-> words[i], startTime |-> start, endTime |-> end]>>
             \o recordsFrom(words, choices, i + 1, end)

InitTiming ==
    /\ pc = "selected"
    /\ expectedWords \in SeqsUpTo({w_cat, w_the}, MaxTimingWords)
    /\ \E words \in SeqsUpTo({w_cat, w_um}, MaxTimingWords) :
          \E choices \in [1..Len(words) -> TimingChoices] :
             spokenWordInfo = recordsFrom(words, choices, 1, 0)
    /\ recordingDuration \in {0, 600}
    /\ rawToken = Null /\ normalized = <<>>
    /\ word1 = Null /\ word2 = Null /\ sim12 = -1 /\ sim21 = -1
    /\ ocrWords = <<>>
    /\ matchResult = Null /\ analysis = Null /\ patterns = Null /\ metrics = Null
    /\ word3 = Null /\ distances = Null

SpecTiming == InitTiming /\ [][Next]_vars

(***************************************************************************)
(* Claims about the WordNormalizer.                                        *)
(***************************************************************************)
\* C7: normalizeWordForMatching is idempotent: normalizing the normal form of a
\* raw token gives that normal form again.
C7_NormalizeIdempotent ==
    (pc = "normalize" /\ Len(normalized) = 2) => normalized[2] = normalized[1]

\* The same, for the raw tokens that are not a property name inherited from
\* Object.prototype (digit tokens included).
IdempotentOnOrdinaryTokens ==
    (/\ pc = "normalize" /\ Len(normalized) = 2
     /\ SelectSeq(toLowerCase(rawToken), IsWordChar) \notin objectPrototypeKeys)
        => normalized[2] = normalized[1]

\* C8: the normal form of a raw token that ends in n't ends in "not", 're in
\* "are", 've in "have", 'll in "will", 'd in "would", and a trailing 's is
\* dropped (the normal form is that of the token without it).
C8_ContractionsExpanded ==
    (pc = "normalize" /\ Len(normalized) >= 1) =>
        LET raw == toLowerCase(rawToken)
            out == normalized[1]
        IN  /\ endsWith(raw, <<"n","'","t">>) => endsWith(out, <<"n","o","t">>)
            /\ endsWith(raw, <<"'","r","e">>) => endsWith(out, <<"a","r","e">>)
            /\ endsWith(raw, <<"'","v","e">>) => endsWith(out, <<"h","a","v","e">>)
            /\ endsWith(raw, <<"'","l","l">>) => endsWith(out, <<"w","i","l","l">>)
            /\ endsWith(raw, <<"'","d">>) => endsWith(out, <<"w","o","u","l","d">>)
            /\ endsWith(raw, <<"'","s">>) =>
                   out = normalizeWordForMatching(SubSeq(raw, 1, Len(raw) - 2))

(***************************************************************************)
(* Claims about the SimilarityScorer.                                      *)
(***************************************************************************)
\* C5: calculateWordSimilarity is reflexive on every normalized token, the
\* empty token included: similarity(a, a) = 1.0, similarity("", "") = 1, and
\* similarity(a, "") = 0 for a non-empty a.
C5_SimilarityReflexive ==
    (pc = "similarity" /\ sim12 # -1) =>
        /\ word1 = word2 => sim12 = Scale
        /\ (word1 # <<>> /\ word2 = <<>>) => sim12 = 0

\* The same without the empty token: similarity(a, a) = 1.0 for a non-empty a.
ReflexiveOnNonEmptyTokens ==
    (pc = "similarity" /\ sim12 # -1 /\ word1 = word2 /\ word1 # <<>>) => sim12 = Scale

\* C6: calculateWordSimilarity is symmetric: similarity(a, b) = similarity(b, a),
\* whichever rule of the cascade decides the pair.
C6_SimilaritySymmetric ==
    (pc = "similarity" /\ sim21 # -1) => sim12 = sim21

\* both orders of a pair of distinct tokens that the confusion table decides are scored
C6_Witness ==
    /\ pc = "similarity" /\ sim21 # -1 /\ word1 # word2
    /\ sim12 = (90 * Scale) \div 100

\* The unit-cost edit distance by its recurrence on the first characters:
\* delete the head of a, insert the head of b, or keep/substitute the heads.
RECURSIVE editDistance(_, _)
editDistance(a, b) ==
    IF a = <<>> THEN Len(b)
    ELSE IF b = <<>> THEN Len(a)
    ELSE Min(1 + editDistance(Tail(a), b),
             Min(1 + editDistance(a, Tail(b)),
                 (IF Head(a) = Head(b) THEN 0 ELSE 1) + editDistance(Tail(a), Tail(b))))

\* C17: levenshteinDistance is a metric over short strings: d(a, a) = 0,
\* d(a, b) = d(b, a) and d(a, b) <= d(a, c) + d(c, b); and it equals the
\* unit-cost insert/delete/substitute edit distance.
C17_LevenshteinIsMetric ==
    pc = "measured" =>
        /\ distances.aa = 0
        /\ distances.ab = distances.ba
        /\ distances.ab <= distances.ac + distances.cb
        /\ distances.ab = editDistance(word1, word2)
        /\ (distances.ab = 0 <=> word1 = word2)

\* three different strings are measured, and the way by the third is no detour
C17_Witness ==
    /\ pc = "measured"
    /\ word1 # word2 /\ word2 # word3 /\ word1 # word3
    /\ distances.ab = distances.ac + distances.cb
    /\ distances.ab = 3

\* the pair is decided by the prefix heuristic or the Levenshtein fallback:
\* both tokens are non-empty, they differ, their phonetic codes differ (or one
\* has none) and the confusion table does not hold them
decidedByLaterCheck(a, b) ==
    /\ a # <<>> /\ b # <<>> /\ a # b
    /\ ~(/\ getPhoneticCode(a) # Null /\ getPhoneticCode(b) # Null
         /\ getPhoneticCode(a) = getPhoneticCode(b))
    /\ ~areCommonConfusions(a, b)

\* C15: the bands of the cascade are ordered: a pair decided by the prefix
\* heuristic or the Levenshtein fallback scores below 0.9, the score of the
\* confusion table, which is below 0.95 (phonetic code), which is below 1.0
\* (exact); in particular similarity(a, b) = 1.0 only when a = b.
C15_BandsOrdered ==
    (pc = "similarity" /\ sim12 # -1) =>
        /\ decidedByLaterCheck(word1, word2) => sim12 < (90 * Scale) \div 100
        /\ sim12 = Scale => word1 = word2

\* the words of the whole-word confusable groups
confusableGroups ==
    {{w_the, w_a, w_uh}, {w_and, w_an}, {w_to, w_too, w_two},
     {w_there, w_their, w_theyre}, {w_your, w_youre}, {w_were_plain, w_where},
     {w_then, w_than}}

\* C16: two distinct words of the same whole-word confusable group (the/a/uh,
\* and/an, to/too/two, there/their/theyre, your/youre, were/where, then/than)
\* receive a similarity of at least 0.9.
C16_ConfusableGroupsAtLeast90 ==
    (pc = "similarity" /\ sim12 # -1 /\ word1 # word2) =>
        \A group \in confusableGroups :
           (word1 \in group /\ word2 \in group) => sim12 >= (90 * Scale) \div 100

\* The pairs the code's table lists: the same with "the", "a" and "the", "uh"
\* in place of the group the/a/uh.
ListedConfusionsAtLeast90 ==
    (pc = "similarity" /\ sim12 # -1 /\ word1 # word2) =>
        \A group \in (confusableGroups \ {{w_the, w_a, w_uh}})
                        \cup {{w_the, w_a}, {w_the, w_uh}} :
           (word1 \in group /\ word2 \in group) => sim12 >= (90 * Scale) \div 100

(***************************************************************************)
(* Claims about the SequenceAligner and the analysis built on it.          *)
(***************************************************************************)
\* C1: analyzePronunciation returns exactly one aligned entry per expected
\* word, in the original order: the alignment is as long as the passage and
\* its i-th entry carries the (0-based) index of the i-th expected word.
C1_OneEntryPerExpectedWord ==
    pc = "results" =>
        /\ Len(analysis.aligned) = Len(expectedWords)
        /\ \A i \in 1..Len(analysis.aligned) :
              /\ analysis.aligned[i].index = i - 1
              /\ analysis.aligned[i].expected = expectedWords[i]

\* a reading with an inserted word, of a passage whose first word is skipped
C1_Witness ==
    /\ pc = "results"
    /\ Len(expectedWords) = 2 /\ Len(cleanSpokenOf(spokenWordInfo)) = 3
    /\ analysis.aligned[1].status = "skipped"
    /\ analysis.aligned[2].status = "correct"

\* C2: correctCount is the number of aligned entries whose status is
\* 'correct', and is at most the number of expected words.
C2_CorrectCountIsCorrectEntries ==
    pc = "results" =>
        /\ analysis.correctCount =
               Cardinality({i \in DOMAIN analysis.aligned :
                               analysis.aligned[i].status = "correct"})
        /\ analysis.correctCount <= Len(expectedWords)

\* an alignment with a correct and a misread entry
C2_Witness ==
    /\ pc = "results"
    /\ analysis.correctCount = 1
    /\ Len(analysis.errors.misreadWords) = 1

isDigitString(word) == word # <<>> /\ \A i \in DOMAIN word : word[i] \in Digits

\* C3: digit strings and number words are equivalent in the alignment: when
\* the reading is the passage word for word, except that number words are
\* recognised as their digit strings, the entry of an expected number word
\* whose spoken word is its digit string is Correct.
C3_NumberWordMatchesDigits ==
    (/\ pc = "results"
     /\ Len(spokenWordInfo) = Len(expectedWords)
     /\ \A j \in DOMAIN expectedWords :
           normalizeWordForMatching(spokenWordInfo[j].word)
               = normalizeWordForMatching(expectedWords[j]))
        => \A i \in DOMAIN expectedWords :
              (isDigitString(spokenWordInfo[i].word) /\ ~isDigitString(expectedWords[i]))
                  => analysis.aligned[i].status = "correct"

\* the passage without its k-th word
withoutWord(words, k) == SubSeq(words, 1, k - 1) \o SubSeq(words, k + 1, Len(words))

\* C9: when the reading is the passage with one word omitted and the rest read
\* exactly, one entry is Skipped and all the others are Correct, so that
\* correctCount is the number of words less one and accuracy is its share of
\* the passage (80 for four words of five).
C9_OmittedWordSkipped ==
    (/\ pc = "results"
     /\ \E k \in DOMAIN expectedWords :
           wordsOf(spokenWordInfo) = withoutWord(expectedWords, k))
        => /\ Cardinality({i \in DOMAIN analysis.aligned :
                              analysis.aligned[i].status = "skipped"}) = 1
           /\ Cardinality({i \in DOMAIN analysis.aligned :
                              analysis.aligned[i].status = "correct"})
                  = Len(expectedWords) - 1
           /\ analysis.correctCount = Len(expectedWords) - 1
           /\ metrics.accuracy * Len(expectedWords)
                  = (Len(expectedWords) - 1) * 100 * Scale

\* The documented instance of C9: the cat sat on the mat, read without "the".
OmittedTheScenario ==
    (/\ pc = "results"
     /\ expectedWords = <<w_cat, w_sat, w_on, w_the, w_mat>>
     /\ wordsOf(spokenWordInfo) = <<w_cat, w_sat, w_on, w_mat>>)
        => /\ [i \in 1..5 |-> analysis.aligned[i].status]
                  = <<"correct", "correct", "correct", "skipped", "correct">>
           /\ analysis.correctCount = 4
           /\ metrics.accuracy = 80 * Scale

\* C10: for the passage "rabbit" read as "wabbit" the single entry is Misread,
\* correctCount is 0 and speechPatterns.rSoundIssues holds exactly that pair.
C10_RabbitWabbit ==
    (/\ pc = "results"
     /\ expectedWords = <<w_rabbit>>
     /\ wordsOf(spokenWordInfo) = <<w_wabbit>>)
        => /\ Len(analysis.aligned) = 1
           /\ analysis.aligned[1].status = "misread"
           /\ analysis.aligned[1].spoken = w_wabbit
           /\ analysis.correctCount = 0
           /\ patterns.speechPatterns.rSoundIssues
                  = <<[expected |-> w_rabbit, actual |-> w_wabbit,
                       pattern |-> "R -> W substitution"]>>

\* "rabbit" read as "wabbit" has been analysed and an r-sound issue recorded
C10_Witness ==
    /\ pc = "results"
    /\ expectedWords = <<w_rabbit>>
    /\ wordsOf(spokenWordInfo) = <<w_wabbit>>
    /\ Len(patterns.speechPatterns.rSoundIssues) = 1

\* the reading is the two-word passage with a filler word spoken in between
fillerBetweenTwoWords ==
    /\ Len(expectedWords) = 2 /\ Len(spokenWordInfo) = 3
    /\ isFillerWord(spokenWordInfo[2].word)
    /\ normalizeWord(spokenWordInfo[1].word) = normalizeWord(expectedWords[1])
    /\ normalizeWord(spokenWordInfo[3].word) = normalizeWord(expectedWords[2])

\* C11: a filler word spoken between the two words of a passage is left out
\* of cleanSpoken, is recorded in errors.hesitations with type 'filler' at its
\* spoken index, and both entries of the alignment are Correct.
C11_FillerBetweenWordsIgnored ==
    (pc = "results" /\ fillerBetweenTwoWords) =>
        /\ \A k \in DOMAIN cleanSpokenOf(spokenWordInfo) :
              cleanSpokenOf(spokenWordInfo)[k] # spokenWordInfo[2]
        /\ \E h \in DOMAIN analysis.errors.hesitations :
              analysis.errors.hesitations[h]
                  = [spokenIndex |-> 1, type |-> "filler", word |-> spokenWordInfo[2].word]
        /\ analysis.aligned[1].status = "correct"
        /\ analysis.aligned[2].status = "correct"
        /\ analysis.correctCount = 2

\* The same for a passage of two different words neither of which is in the
\* filler list.
FillerBetweenDistinctWordsIgnored ==
    (/\ pc = "results" /\ fillerBetweenTwoWords
     /\ ~isFillerWord(expectedWords[1]) /\ ~isFillerWord(expectedWords[2])
     /\ normalizeWord(expectedWords[1]) # normalizeWord(expectedWords[2]))
        => /\ \E h \in DOMAIN analysis.errors.hesitations :
                 analysis.errors.hesitations[h]
                     = [spokenIndex |-> 1, type |-> "filler", word |-> spokenWordInfo[2].word]
           /\ analysis.aligned[1].status = "correct"
           /\ analysis.aligned[2].status = "correct"
           /\ analysis.correctCount = 2

\* C12: with an empty expectedWords list, whatever was spoken,
\* analyzePronunciation returns no aligned entry and correctCount 0, and
\* calculateProsodyMetrics returns accuracy 0 (the division by the number of
\* words is not made).
C12_EmptyPassage ==
    (pc = "results" /\ expectedWords = <<>>) =>
        /\ analysis.aligned = <<>>
        /\ analysis.correctCount = 0
        /\ analysis.errors.skippedWords = <<>>
        /\ analysis.errors.misreadWords = <<>>
        /\ metrics.totalWords = 0
        /\ metrics.accuracy = 0

\* an empty passage has been analysed against a reading of several words
C12_Witness ==
    /\ pc = "results"
    /\ expectedWords = <<>>
    /\ Len(cleanSpokenOf(spokenWordInfo)) >= 2
    /\ analysis.aligned = <<>>

(***************************************************************************)
(* Claims about the RangeLocator.                                          *)
(***************************************************************************)
isSentinel(result) == result.firstIndex = -1 /\ result.lastIndex = -1

\* some start offset's DP ends with at least two matched words
twoMatchCandidate ==
    LET cleanSpoken == cleanSpokenForRange(spokenWordInfo)
        cleanOCR == cleanOCROf(ocrWords)
    IN  /\ Len(cleanSpoken) > 0
        /\ \E startOCR \in 0..(Len(cleanOCR) - 1) :
              finalStateOf(startOCR, Len(cleanSpoken), Len(cleanOCR),
                           buildSimilarityMatrix(cleanSpoken, cleanOCR)).matchCount >= 2

\* a spoken word of four or more characters is similar (>= 0.6) to an OCR word
\* that occurs at most twice on the page
anchorExists ==
    LET cleanSpoken == cleanSpokenForRange(spokenWordInfo)
        cleanOCR == cleanOCROf(ocrWords)
    IN  \E s \in DOMAIN cleanSpoken : \E o \in DOMAIN cleanOCR :
           /\ Len(cleanSpoken[s]) >= 4
           /\ Cardinality({k \in DOMAIN cleanOCR : cleanOCR[k] = cleanOCR[o]}) <= 2
           /\ 100 * calculateWordSimilarity(cleanSpoken[s], cleanOCR[o]) >= 60 * Scale

\* C4 as stated: findSpokenRangeInOCR returns the sentinel if and only if no
\* candidate alignment reaches two matched words, and never returns a range
\* that is backed by fewer than two matched words.
C4_SentinelIffNoTwoMatches ==
    pc = "located" =>
        /\ isSentinel(matchResult) <=> ~twoMatchCandidate
        /\ ~isSentinel(matchResult) => matchResult.matchedCount >= 2

\* C4, amended: findSpokenRangeInOCR returns the sentinel if and only if no
\* start offset's DP ends with two matched words and the anchor fallback finds
\* no anchor; a range backed by fewer than two matched words is returned only
\* by the anchor fallback, and is backed by one anchor.
C4_SentinelIffNoCandidateAndNoAnchor ==
    pc = "located" =>
        /\ isSentinel(matchResult) <=> (~twoMatchCandidate /\ ~anchorExists)
        /\ isSentinel(matchResult) => matchResult.matchedCount = 0
        /\ twoMatchCandidate => matchResult.matchedCount >= 2
        /\ (~isSentinel(matchResult) /\ matchResult.matchedCount < 2)
               => (~twoMatchCandidate /\ anchorExists /\ matchResult.matchedCount = 1)

\* the anchor fallback has returned a range that rests on a single anchor
C4_Witness ==
    /\ pc = "located"
    /\ ~isSentinel(matchResult)
    /\ matchResult.matchedCount = 1

\* every spoken record is discarded: it has no word, or a filler word, or a
\* word that normalizes to the empty string
allSpokenDiscarded ==
    \A i \in DOMAIN spokenWordInfo :
       \/ noWord(spokenWordInfo[i])
       \/ isFillerWord(spokenWordInfo[i].word)
       \/ normalizeWordForMatching(spokenWordInfo[i].word) = <<>>

\* C13: findSpokenRangeInOCR returns the sentinel {firstIndex: -1, lastIndex:
\* -1, matchedCount: 0} whenever the OCR list is empty or no spoken word is
\* left after the fillers and the tokens that normalize to the empty string
\* are discarded.
C13_SentinelOnEmptyInput ==
    (pc = "located" /\ (ocrWords = <<>> \/ allSpokenDiscarded)) =>
        matchResult = [firstIndex |-> -1, lastIndex |-> -1, matchedCount |-> 0]

\* a recording of nothing but a filler word that is on the page has been located
C13_Witness ==
    /\ pc = "located"
    /\ Len(spokenWordInfo) >= 1 /\ allSpokenDiscarded
    /\ \E o \in DOMAIN ocrWords : \E i \in DOMAIN spokenWordInfo :
          ~noWord(spokenWordInfo[i]) /\ ocrWords[o] = spokenWordInfo[i].word
    /\ isSentinel(matchResult)

(***************************************************************************)
(* Claims about hesitations and the prosody metrics.                       *)
(***************************************************************************)
\* errors.hesitations records a pause at the (1-based) spoken word i
pauseRecordedAt(i) ==
    \E h \in DOMAIN analysis.errors.hesitations :
       /\ analysis.errors.hesitations[h].spokenIndex = i - 1
       /\ analysis.errors.hesitations[h].type = "pause"

\* C14: a non-filler spoken word is recorded as a pause hesitation exactly
\* when the gap between its start time and the end time of the spoken word
\* before it is greater than 1.0 second; a gap of at most 1.0 s (0.7 s, say)
\* records no hesitation.
C14_PauseOverOneSecond ==
    pc = "results" =>
        \A i \in 2..Len(spokenWordInfo) :
           (/\ ~isFillerWord(spokenWordInfo[i].word)
            /\ spokenWordInfo[i].startTime # NoTime
            /\ spokenWordInfo[i - 1].endTime # NoTime)
               => (pauseRecordedAt(i)
                      <=> spokenWordInfo[i].startTime - spokenWordInfo[i - 1].endTime > 10)

\* What the code does: the pause is recorded exactly when the gap is greater
\* than 0.5 s.
PauseOverHalfSecond ==
    pc = "results" =>
        \A i \in 2..Len(spokenWordInfo) :
           (/\ ~isFillerWord(spokenWordInfo[i].word)
            /\ spokenWordInfo[i].startTime # NoTime
            /\ spokenWordInfo[i - 1].endTime # NoTime)
               => (pauseRecordedAt(i)
                      <=> spokenWordInfo[i].startTime - spokenWordInfo[i - 1].endTime > 5)

\* C18: for every input, the empty passage, the empty recording and the
\* reading time zero included, calculateProsodyMetrics returns a prosodyScore
\* within [1.0, 4.0].
C18_ProsodyScoreInRange ==
    pc = "results" => (metrics.prosodyScore >= 10 /\ metrics.prosodyScore <= 40)

\* nothing selected, nothing spoken, no recording duration: the score is 2.4
C18_Witness ==
    /\ pc = "results"
    /\ expectedWords = <<>> /\ spokenWordInfo = <<>> /\ recordingDuration = 0
    /\ metrics.readingTime = 0 /\ metrics.prosodyScore = 24

\* the recording has no usable timing: it is empty, or its first word has no
\* start time, or its last word no end time
noUsableTiming ==
    \/ spokenWordInfo = <<>>
    \/ spokenWordInfo[1].startTime = NoTime
    \/ spokenWordInfo[Len(spokenWordInfo)].endTime = NoTime

\* C19: words per minute never divide by zero: wpm = 0 whenever the reading
\* time is <= 0 (no usable timing and no recording duration, or a last end
\* time not after the first start time); otherwise wpm is
\* round(wordsRead / (readingTime / 60)); wpm is never negative.
C19_WpmGuarded ==
    pc = "results" =>
        /\ metrics.wpm >= 0
        /\ metrics.readingTime <= 0 => metrics.wpm = 0
        /\ (noUsableTiming /\ recordingDuration = 0) => metrics.wpm = 0
        /\ (/\ ~noUsableTiming
            /\ spokenWordInfo[Len(spokenWordInfo)].endTime <= spokenWordInfo[1].startTime)
               => metrics.wpm = 0
        /\ metrics.readingTime > 0 =>
              \* wpm - 1/2 <= 600 * wordsRead / readingTime < wpm + 1/2 (times in tenths)
              /\ (2 * metrics.wpm - 1) * metrics.readingTime <= 1200 * metrics.wordsRead
              /\ 1200 * metrics.wordsRead < (2 * metrics.wpm + 1) * metrics.readingTime

\* a word is read correctly in no time at all: wordsRead is 1, readingTime 0
C19_Witness ==
    /\ pc = "results"
    /\ ~noUsableTiming
    /\ metrics.wordsRead = 1 /\ metrics.readingTime = 0 /\ metrics.wpm = 0

(***************************************************************************)
(* Claims about the error patterns.                                        *)
(***************************************************************************)
\* the error count of the alignment: skipped + misread + substituted
errorCount ==
    Len(analysis.errors.skippedWords) + Len(analysis.errors.misreadWords)
    + Len(analysis.errors.substitutedWords)

\* C20: the summary severity of analyzeErrorPatterns is a step function of the
\* error count n = skipped + misread + substituted of the alignment: n = 0
\* gives 'excellent', 1 <= n < 5 'mild', 5 <= n < 10 'moderate' and n >= 10
\* 'significant'.
C20_SeverityStepFunction ==
    pc = "results" =>
        /\ errorCount = 0 <=> patterns.summary.severity = "excellent"
        /\ (1 <= errorCount /\ errorCount < 5) <=> patterns.summary.severity = "mild"
        /\ (5 <= errorCount /\ errorCount < 10) <=> patterns.summary.severity = "moderate"
        /\ errorCount >= 10 <=> patterns.summary.severity = "significant"

\* nine words skipped and one misread: ten errors are significant
C20_Witness ==
    /\ pc = "results"
    /\ Len(analysis.errors.skippedWords) = 9 /\ Len(analysis.errors.misreadWords) = 1
    /\ patterns.summary.severity = "significant"

(***************************************************************************)
(* Further claims about the SequenceAligner.                               *)
(***************************************************************************)
\* every entry of the alignment is Correct and every expected word has one
allCorrect ==
    /\ Len(analysis.aligned) = Len(expectedWords)
    /\ \A i \in DOMAIN analysis.aligned : analysis.aligned[i].status = "correct"
    /\ analysis.correctCount = Len(expectedWords)

\* C21: if the spoken word sequence is word for word the expected word
\* sequence, every aligned entry is Correct and correctCount is the number of
\* expected words, whatever the words are: "like", "ah", "er" and a word said
\* twice in a row included.
C21_ExactReadingAllCorrect ==
    (pc = "results" /\ wordsOf(spokenWordInfo) = expectedWords) => allCorrect

\* The same for a passage without a filler word and without a doubled word.
ExactReadingOfPlainPassageAllCorrect ==
    (/\ pc = "results" /\ wordsOf(spokenWordInfo) = expectedWords
     /\ \A i \in DOMAIN expectedWords :
           /\ ~isFillerWord(expectedWords[i])
           /\ i > 1 => normalizeWord(expectedWords[i]) # normalizeWord(expectedWords[i - 1]))
        => allCorrect

\* the pair is neither normalized-equal nor phonetically equivalent
notPhoneticallyEqual(expected, spoken) ==
    /\ normalizeWord(expected) # normalizeWord(spoken)
    /\ ~arePhoneticEquivalents(normalizeWord(expected), normalizeWord(spoken))

\* C23: an aligned entry is Misread only if its spoken word is fuzzy-equal to
\* the expected word (similar, but neither normalized-equal nor phonetically
\* equivalent): an expected word paired with a strong mismatch (match score
\* -1) is never reported as Misread with that spoken word.
C23_MisreadOnlyIfFuzzyEqual ==
    pc = "results" =>
        \A i \in DOMAIN analysis.aligned :
           analysis.aligned[i].status = "misread" =>
              /\ notPhoneticallyEqual(analysis.aligned[i].expected, analysis.aligned[i].spoken)
              /\ wordsAreSimilar(analysis.aligned[i].expected, analysis.aligned[i].spoken)
              /\ matchScore(analysis.aligned[i].expected, analysis.aligned[i].spoken) # -Scale

\* What the code does: a Misread entry is a matched pair that is not
\* phonetically equal, fuzzy-equal or not.
MisreadOnlyIfNotPhoneticallyEqual ==
    pc = "results" =>
        \A i \in DOMAIN analysis.aligned :
           analysis.aligned[i].status = "misread" =>
              notPhoneticallyEqual(analysis.aligned[i].expected, analysis.aligned[i].spoken)

\* C24: the fuzzy match score +0.3 is awarded exactly when the two words are
\* not normalized-equal or phonetically equivalent and calculateWordSimilarity
\* rates them >= 0.6; "run" for "running", which the prefix rule rates above
\* 0.6, is scored +0.3, not -1.
C24_FuzzyScoreFromSimilarityScorer ==
    pc = "results" =>
        \A i \in DOMAIN expectedWords :
           \A j \in DOMAIN spokenWordInfo :
              (matchScore(expectedWords[i], spokenWordInfo[j].word) = (3 * Scale) \div 10)
                 <=> (/\ notPhoneticallyEqual(expectedWords[i], spokenWordInfo[j].word)
                      /\ calculateWordSimilarity(normalizeWord(expectedWords[i]),
                                                 normalizeWord(spokenWordInfo[j].word))
                            >= (60 * Scale) \div 100)

\* What the code does: +0.3 is awarded exactly when the words are not
\* phonetically equal and their plain Levenshtein ratio 1 - distance / maxLen
\* is >= 0.6, which the similarity of calculateWordSimilarity is then too.
FuzzyScoreFromLevenshteinRatio ==
    pc = "results" =>
        \A i \in DOMAIN expectedWords :
           \A j \in DOMAIN spokenWordInfo :
              LET e == normalizeWord(expectedWords[i])
                  w == normalizeWord(spokenWordInfo[j].word)
                  fuzzy == matchScore(expectedWords[i], spokenWordInfo[j].word)
                              = (3 * Scale) \div 10
              IN  /\ fuzzy <=> (/\ notPhoneticallyEqual(expectedWords[i], spokenWordInfo[j].word)
                                /\ 10 * (Max(Len(e), Len(w)) - editDistance(e, w))
                                      >= 6 * Max(Len(e), Len(w)))
                  /\ fuzzy => calculateWordSimilarity(e, w) >= (60 * Scale) \div 100

\* the words of cleanSpoken
cleanWords == wordsOf(cleanSpokenOf(spokenWordInfo))

\* The best total of an order-preserving alignment of the expected words e
\* with the spoken words c, by its recurrence on the first words: match the
\* two heads, skip the head of e (-1), or insert the head of c (-0.5).
RECURSIVE optimum(_, _)
optimum(e, c) ==
    IF e = <<>> THEN -(Len(c) * (Scale \div 2))
    ELSE IF c = <<>> THEN -(Len(e) * Scale)
    ELSE Max(matchScore(Head(e), Head(c)) + optimum(Tail(e), Tail(c)),
             Max(optimum(Tail(e), c) - Scale, optimum(e, Tail(c)) - Scale \div 2))

\* the best total for the first i expected and the first j spoken words
optimumOfPrefixes(i, j) == optimum(SubSeq(expectedWords, 1, i), SubSeq(cleanWords, 1, j))

\* The entries <<index, spoken word>> of the best alignment of the first i
\* expected with the first j spoken words that ends, among equally good last
\* actions, in a match rather than a skip rather than an insert.
RECURSIVE preferredAlignment(_, _)
preferredAlignment(i, j) ==
    IF i = 0 THEN <<>>
    ELSE IF j = 0 THEN Append(preferredAlignment(i - 1, 0), <<i - 1, Null>>)
    ELSE IF optimumOfPrefixes(i, j)
               = optimumOfPrefixes(i - 1, j - 1) + matchScore(expectedWords[i], cleanWords[j])
    THEN Append(preferredAlignment(i - 1, j - 1), <<i - 1, cleanWords[j]>>)
    ELSE IF optimumOfPrefixes(i, j) = optimumOfPrefixes(i - 1, j) - Scale
    THEN Append(preferredAlignment(i - 1, j), <<i - 1, Null>>)
    ELSE preferredAlignment(i, j - 1)

\* the score of the action that produced an aligned entry
RECURSIVE entryScores(_)
entryScores(aligned) ==
    IF aligned = <<>> THEN 0
    ELSE (IF Head(aligned).status = "skipped" THEN -Scale
          ELSE matchScore(Head(aligned).expected, Head(aligned).spoken))
         + entryScores(Tail(aligned))

\* the total of the returned alignment: its entries, and -0.5 for every word
\* of cleanSpoken that no entry holds
alignmentScore ==
    LET matched == Cardinality({k \in DOMAIN analysis.aligned :
                                   analysis.aligned[k].status # "skipped"})
    IN  entryScores(analysis.aligned) - (Len(cleanWords) - matched) * (Scale \div 2)

\* C25: the alignment returned by analyzePronunciation is optimal: the sum of
\* its actions' scores is the maximum over all order-preserving alignments of
\* expectedWords with cleanSpoken, and among equal-scoring choices at a cell
\* the backtrack follows match before skip before insert.
C25_AlignmentOptimal ==
    pc = "results" =>
        /\ alignmentScore = optimum(expectedWords, cleanWords)
        /\ [k \in DOMAIN analysis.aligned |->
               <<analysis.aligned[k].index, analysis.aligned[k].spoken>>]
              = preferredAlignment(Len(expectedWords), Len(cleanWords))

\* The total of the returned alignment is the best total.  For "cat cat" read
\* as "cats cat the cats" the last cell has match = 0.3 and insert =
\* ((0.3 + 1) - 0.5) - 0.5, which is above 0.3 in doubles: the insert is
\* followed, and the first "cat" rather than the second is the misread one.
AlignmentTotalOptimal ==
    pc = "results" => alignmentScore = optimum(expectedWords, cleanWords)

(***************************************************************************)
(* Further claims about the RangeLocator.                                  *)
(***************************************************************************)
\* dp[0..m] of findBestAlignment for the start offset startOCR of the located input
dpOfStart(startOCR) ==
    LET cleanSpoken == cleanSpokenForRange(spokenWordInfo)
        cleanOCR == cleanOCROf(ocrWords)
    IN  dpFrom(<<freshState(startOCR)>>, startOCR, Len(cleanSpoken), Len(cleanOCR),
               buildSimilarityMatrix(cleanSpoken, cleanOCR))

\* next is prev with the spoken word dropped: GAP_PENALTY off the score, the rest carried
isDropOf(prev, next) ==
    next = [score |-> prev.score - GAP_PENALTY, matchCount |-> prev.matchCount,
            lastOCR |-> prev.lastOCR, firstOCR |-> prev.firstOCR]

\* next is prev extended by a match with a later OCR word
isExtensionOf(prev, next) ==
    /\ next.matchCount = prev.matchCount + 1
    /\ next.lastOCR > prev.lastOCR
    /\ next.firstOCR = (IF prev.firstOCR = -1 THEN next.lastOCR ELSE prev.firstOCR)

\* C22: in the DP of a start offset, the state after each spoken word is the
\* best extension or the drop, which takes GAP_PENALTY off the score and
\* carries matchCount, lastOCR and firstOCR forward; hence along dp[0..m]
\* matchCount and lastOCR never decrease and a firstOCR once set is never lost.
C22_DropCarriesStateForward ==
    pc = "located" =>
        \A startOCR \in 0..(Len(ocrWords) - 1) :
           LET dp == dpOfStart(startOCR)
           IN  \A s \in 1..(Len(dp) - 1) :
                  /\ isExtensionOf(dp[s], dp[s + 1]) \/ isDropOf(dp[s], dp[s + 1])
                  /\ dp[s + 1].matchCount >= dp[s].matchCount
                  /\ dp[s + 1].lastOCR >= dp[s].lastOCR
                  /\ dp[s].firstOCR # -1 => dp[s + 1].firstOCR = dp[s].firstOCR

\* What the code does: the state after a spoken word is the best extension or
\* the drop when one of them scores above 0, and the fresh state of the start
\* offset otherwise, whatever was matched before.
DropOrExtensionOrFreshState ==
    pc = "located" =>
        \A startOCR \in 0..(Len(ocrWords) - 1) :
           LET dp == dpOfStart(startOCR)
           IN  \A s \in 1..(Len(dp) - 1) :
                  \/ dp[s + 1].score > 0
                        /\ (isExtensionOf(dp[s], dp[s + 1]) \/ isDropOf(dp[s], dp[s + 1]))
                  \/ dp[s + 1] = freshState(startOCR)

\* C26: a range that findSpokenRangeInOCR returns, from the DP or from the
\* anchor fallback, is a valid range of OCR indices, 0 <= firstIndex <=
\* lastIndex < number of OCR words, with matchedCount >= 1; -1 occurs only as
\* the sentinel, in both indices and with matchedCount = 0.
C26_RangeValidOrSentinel ==
    pc = "located" =>
        \/ matchResult = noMatch
        \/ /\ 0 <= matchResult.firstIndex
           /\ matchResult.firstIndex <= matchResult.lastIndex
           /\ matchResult.lastIndex < Len(ocrWords)
           /\ matchResult.matchedCount >= 1

\* the anchor fallback has returned a range of more than one OCR word
C26_Witness ==
    /\ pc = "located"
    /\ ~twoMatchCandidate
    /\ matchResult.firstIndex >= 0
    /\ matchResult.firstIndex < matchResult.lastIndex

\* C27: the matchedCount that findSpokenRangeInOCR returns exceeds neither the
\* number of spoken words left after the filtering nor the width lastIndex -
\* firstIndex + 1 of the returned range: a spoken word accounts for at most
\* one matched OCR word, on the DP path and on the anchor-fallback path.
C27_MatchedCountBounded ==
    (pc = "located" /\ ~isSentinel(matchResult)) =>
        /\ matchResult.matchedCount <= Len(cleanSpokenForRange(spokenWordInfo))
        /\ matchResult.matchedCount <= matchResult.lastIndex - matchResult.firstIndex + 1

\* What the code does: the DP counts at most one OCR word for a spoken word;
\* the fallback counts anchors, one for every OCR word that a spoken word
\* resembles, so its count is bounded by the width of the range alone.
MatchedCountBoundedByWidth ==
    (pc = "located" /\ ~isSentinel(matchResult)) =>
        /\ matchResult.matchedCount <= matchResult.lastIndex - matchResult.firstIndex + 1
        /\ twoMatchCandidate =>
              matchResult.matchedCount <= Len(cleanSpokenForRange(spokenWordInfo))

(***************************************************************************)
(* Further claims about the alignment and its error lists.                 *)
(***************************************************************************)
\* the spoken words attached to the entries that are not skipped, in order
attachedWords ==
    LET attached == SelectSeq(analysis.aligned, LAMBDA entry : entry.status # "skipped")
    IN  [k \in DOMAIN attached |-> attached[k].spoken]

\* a is b with some of its elements left out: the elements of a can be taken
\* from b at strictly increasing positions
RECURSIVE isSubsequence(_, _)
isSubsequence(a, b) ==
    IF a = <<>> THEN TRUE
    ELSE IF b = <<>> THEN FALSE
    ELSE IF Head(a) = Head(b) /\ isSubsequence(Tail(a), Tail(b)) THEN TRUE
    ELSE isSubsequence(a, Tail(b))

\* C28: the alignment preserves the order of the spoken words: the words
\* attached to the entries that are not skipped are words of cleanSpoken at
\* strictly increasing positions, so no word of cleanSpoken is attached twice;
\* a skipped entry has spoken = null; and an inserted spoken word has no
\* entry: the entries are those of the expected words, one each, in order.
C28_SpokenOrderPreserved ==
    pc = "results" =>
        /\ isSubsequence(attachedWords, cleanWords)
        /\ \A k \in DOMAIN analysis.aligned :
              /\ analysis.aligned[k].status \in {"correct", "misread", "skipped"}
              /\ analysis.aligned[k].status = "skipped" <=> analysis.aligned[k].spoken = Null
              /\ analysis.aligned[k].index = k - 1
              /\ analysis.aligned[k].expected = expectedWords[k]
        /\ Len(analysis.aligned) = Len(expectedWords)

\* two different spoken words are attached to the two expected words and a
\* third spoken word, between them or around them, was inserted
C28_Witness ==
    /\ pc = "results"
    /\ Len(attachedWords) = 2
    /\ attachedWords[1] # attachedWords[2]
    /\ Len(cleanWords) > Len(attachedWords)

\* The 0-based indices of the spoken records from i on that are neither empty
\* nor fillers and are left out of cleanSpoken as duplicates of the word kept
\* last, whose normal form is last (Null when no word is kept yet).
RECURSIVE droppedDuplicates(_, _, _)
droppedDuplicates(info, i, last) ==
    IF i > Len(info) THEN {}
    ELSE IF noWord(info[i]) \/ isFillerWord(info[i].word)
    THEN droppedDuplicates(info, i + 1, last)
    ELSE IF last # Null /\ normalizeWord(info[i].word) = last
    THEN {i - 1} \cup droppedDuplicates(info, i + 1, last)
    ELSE droppedDuplicates(info, i + 1, normalizeWord(info[i].word))

\* the spoken indices that errors.repeatedWords holds
repeatedIndices ==
    {analysis.errors.repeatedWords[k].spokenIndex : k \in DOMAIN analysis.errors.repeatedWords}

\* C29: every spoken word that is not a filler and is left out of cleanSpoken
\* as a duplicate of the word kept before it is recorded in
\* errors.repeatedWords with its spoken index, also when a filler stands
\* between the two occurrences.
C29_DroppedDuplicatesRecorded ==
    pc = "results" => droppedDuplicates(spokenWordInfo, 1, Null) \subseteq repeatedIndices

\* What the code does: a dropped duplicate is recorded when the record just
\* before it holds the same word, and not when that record is a filler.
DroppedDuplicatesRecordedWhenAdjacent ==
    pc = "results" =>
        \A i \in droppedDuplicates(spokenWordInfo, 1, Null) :
           i \in repeatedIndices
              <=> normalizeWord(spokenWordInfo[i].word) = normalizeWord(spokenWordInfo[i + 1].word)

\* the aligned entries of one status
entriesOf(status) == {k \in DOMAIN analysis.aligned : analysis.aligned[k].status = status}

\* C30: the error lists agree with the aligned statuses: errors.skippedWords
\* holds exactly the indices of the skipped entries and errors.misreadWords
\* exactly the (index, expected, spoken) of the misread entries, each once;
\* so correctCount + len(misreadWords) + len(skippedWords) = len(expectedWords),
\* and in the metrics wordsRead plus the skipped words is totalWords.
C30_ErrorListsAgreeWithStatuses ==
    pc = "results" =>
        /\ {analysis.errors.skippedWords[k] : k \in DOMAIN analysis.errors.skippedWords}
              = {analysis.aligned[k].index : k \in entriesOf("skipped")}
        /\ Len(analysis.errors.skippedWords) = Cardinality(entriesOf("skipped"))
        /\ {analysis.errors.misreadWords[k] : k \in DOMAIN analysis.errors.misreadWords}
              = {[index |-> analysis.aligned[k].index,
                  expected |-> analysis.aligned[k].expected,
                  spoken |-> analysis.aligned[k].spoken] : k \in entriesOf("misread")}
        /\ Len(analysis.errors.misreadWords) = Cardinality(entriesOf("misread"))
        /\ analysis.correctCount = Cardinality(entriesOf("correct"))
        /\ analysis.correctCount + Len(analysis.errors.misreadWords)
              + Len(analysis.errors.skippedWords) = Len(expectedWords)
        /\ metrics.wordsRead + Len(analysis.errors.skippedWords) = metrics.totalWords

\* a passage of which one word was misread and another skipped
C30_Witness ==
    /\ pc = "results"
    /\ Len(analysis.errors.misreadWords) >= 1
    /\ Len(analysis.errors.skippedWords) >= 1
    /\ metrics.wordsRead < metrics.totalWords

=============================================================================
